---- MODULE Spec2Model ----
(***************************************************************************)
(* CroGas relay server: the /meta/relay and /meta/batch pipeline           *)
(* (meta.controller), the payment service (x402 / EIP-3009), the forwarder *)
(* service and the two contracts it talks to (MinimalForwarder, TestUSDC), *)
(* the rate limiters in front of the routes, GET /estimate, and the        *)
(* auto-rebalance service.                                                 *)
(*                                                                         *)
(* Units.  Stablecoin amounts are base units (1e-6 USDC).  Gas is counted  *)
(* in thousands (gasK), node gas prices in hundreds of gwei (gasPriceH),   *)
(* the spot price in 1e-3 USD (spotMilli); node gas prices are multiples   *)
(* of 1000 gwei (or 500 gwei times an even number), so that the priority   *)
(* multipliers give whole units.  On these grids every product of          *)
(* calculatePrice is an exact integer below 2^31.                          *)
(***************************************************************************)
EXTENDS Integers, Sequences, FiniteSets, TLC

(***************************************************************************)
(* Bounds of the model.                                                    *)
(***************************************************************************)
\* requests a client sends beyond the general limit of a window
MaxOver == 1
\* the clock runs over 1..MaxTime
MaxTime == 2
\* a batch holds 1..MaxBatch requests (the schema allows up to BATCH_MAX)
\* the largest relayer pool, and the calls made on one pool
MaxPool == 3
MaxCalls == 6
\* the nonces one caller asks the nonce service for
MaxAlloc == 2
MaxBatch == 3

(***************************************************************************)
(* Program constants.                                                      *)
(***************************************************************************)
MARKUP_PERCENTAGE == 20
MIN_PRICE_MICRO == 10000
MAX_PRICE_MICRO == 10000000
FLOOR_PRICE_MICRO == 5000
BATCH_DISCOUNT_PERCENT == 90
BATCH_MAX == 10
DEFAULT_GAS_PRICE_H == 50
DEFAULT_CRO_USD_MILLI == 150
GENERAL_MAX == 100
RELAY_MAX == 30
ESTIMATE_MAX == 200
MIN_CRO_BALANCE == 10
TARGET_CRO_BALANCE == 50
SLIPPAGE_PERCENT == 5
FALLBACK_CRO_PRICE_MILLI == 100
COOLDOWN_MS == 60000
FAUCET_AMOUNT == 100000000
QUOTE_VALIDITY_SECONDS == 60

\* config/env.ts: the validated environment.  MARKUP_PERCENTAGE is a number in
\* 0..100, MIN_PRICE_USDC any positive number (held here in base units)
VARIABLE env

DefaultEnv == [MARKUP_PERCENTAGE |-> MARKUP_PERCENTAGE, MIN_PRICE_USDC |-> MIN_PRICE_MICRO]

Min(a, b) == IF a < b THEN a ELSE b
Max(a, b) == IF a > b THEN a ELSE b

(***************************************************************************)
(* Addresses.  An address string keeps its letter case; the chain and      *)
(* toLowerCase() identify strings that differ in case only.                *)
(***************************************************************************)
RECEIVING_WALLET == "0xF40B"
AddrStrings == {"0xF40B", "0xf40b", "0x0000", "0xa1", "0xp1"}

toLowerCase(s) == IF s = "0xF40B" THEN "0xf40b" ELSE s

Priorities == {"slow", "normal", "fast"}

\* the slow and the fast tier taken for each other
PRIORITY_CONFIGS_SlowFastSwapped ==
  [slow   |-> [markupMultiplier2 |-> 4, gasPriceMultiplier10 |-> 15],
   normal |-> [markupMultiplier2 |-> 2, gasPriceMultiplier10 |-> 10],
   fast   |-> [markupMultiplier2 |-> 1, gasPriceMultiplier10 |-> 8]]
\* PRIORITY_CONFIGS: markupMultiplier in halves, gasPriceMultiplier in tenths
PRIORITY_CONFIGS ==
  [slow   |-> [markupMultiplier2 |-> 1, gasPriceMultiplier10 |-> 8],
   normal |-> [markupMultiplier2 |-> 2, gasPriceMultiplier10 |-> 10],
   fast   |-> [markupMultiplier2 |-> 4, gasPriceMultiplier10 |-> 15]]

(***************************************************************************)
(* PricingService.calculatePrice.  gasK * adjusted * spotMilli * markupNum *)
(* is the price in units of 1/2000 base unit; toFixed(6) rounds it to the  *)
(* nearest base unit.  The clamp bounds are whole base units, so clamping  *)
(* before or after the rounding gives the same integer.  The product is    *)
(* rounded in two parts, (2000 q + r) m = 2000 q m + r m, to stay below    *)
(* 2^31 for prices up to the cap and beyond.                               *)
(***************************************************************************)
AdjustedGasPrice(gasPriceH, priority) ==
  (gasPriceH * PRIORITY_CONFIGS[priority].gasPriceMultiplier10) \div 10

MarkupNum(priority) ==
  200 + env.MARKUP_PERCENTAGE * PRIORITY_CONFIGS[priority].markupMultiplier2

\* the minimum price of the normal tier applied to every tier
MinPriceMicro_Unscaled(priority) == Max(env.MIN_PRICE_USDC, FLOOR_PRICE_MICRO)
\* minPrice = env.MIN_PRICE_USDC * markupMultiplier, at least 0.005 USD
MinPriceMicro(priority) ==
  Max((env.MIN_PRICE_USDC * PRIORITY_CONFIGS[priority].markupMultiplier2) \div 2,
      FLOOR_PRICE_MICRO)

\* the digits beyond the sixth decimal cut off
ToFixed6_Truncated(num2000) == num2000 \div 2000
\* Number.prototype.toFixed(6): the nearest multiple of 1e-6
ToFixed6(num2000) == (num2000 + 1000) \div 2000

calculatePrice(gasK, priority, gasPriceH, spotMilli) ==
  LET adjusted == AdjustedGasPrice(gasPriceH, priority)
      baseNum  == gasK * adjusted * spotMilli
      rounded  == (baseNum \div 2000) * MarkupNum(priority)
                    + ToFixed6((baseNum % 2000) * MarkupNum(priority))
      floored  == Max(rounded, MinPriceMicro(priority))
  IN  [gasEstimate   |-> gasK,
       gasPriceH     |-> adjusted,
       croUsdPrice   |-> spotMilli,
       priority      |-> priority,
       finalPriceRaw |-> Min(floored, MAX_PRICE_MICRO)]

\* WalletService.getGasPrice: feeData.gasPrice ?? 5000 gwei (0 stands for null)
getGasPrice(feeDataGasPrice) ==
  IF feeDataGasPrice = 0 THEN DEFAULT_GAS_PRICE_H ELSE feeDataGasPrice

\* the discount rounded up to the next base unit
discountedPrice_RoundedUp(finalPriceRaw) ==
  (finalPriceRaw * BATCH_DISCOUNT_PERCENT + 99) \div 100
\* meta.controller: the batch discount, (finalPriceRaw * 90n) / 100n
discountedPrice(finalPriceRaw) == (finalPriceRaw * BATCH_DISCOUNT_PERCENT) \div 100

(***************************************************************************)
(* The X-Payment header.  A header is absent, or a string: its base64      *)
(* alphabet characters (with or without characters outside the alphabet    *)
(* mixed in) and the text they decode to.  The text is not JSON, the JSON  *)
(* literal null, a JSON object without a payload, or a payment envelope.   *)
(***************************************************************************)
NoHeader == [kind |-> "absent"]
Null == [kind |-> "null"]

\* Buffer.from(header, "base64").toString("utf-8"): characters outside the
\* alphabet are skipped, never rejected
Base64Decode(header) == header.text

\* JSON.parse(decoded): throws on text that is not JSON
JSONparse(text) == IF text.kind = "garbage" THEN [kind |-> "throw"] ELSE text

\* PaymentService.parsePaymentHeader
parsePaymentHeader(header) ==
  LET parsed == JSONparse(Base64Decode(header))
  IN  IF parsed.kind = "throw" THEN Null ELSE parsed

(***************************************************************************)
(* PaymentService.verifyPayment, the checks made before any chain read.    *)
(***************************************************************************)
RecipientOk(auth) == toLowerCase(auth.to) = toLowerCase(RECEIVING_WALLET)

\* the amount check left out
AmountOk_Unchecked(auth, expectedAmount) == TRUE
AmountOk(auth, expectedAmount) == ~(auth.value < expectedAmount)

\* now < validAfter in place of now <= validAfter
ValidAfterOk_Inclusive(auth, t) == ~(t < auth.validAfter)
ValidAfterOk(auth, t) == ~(t <= auth.validAfter)

ValidBeforeOk(auth, t) == ~(t >= auth.validBefore)

Valid == [valid |-> TRUE, reason |-> ""]
Invalid(reason) == [valid |-> FALSE, reason |-> reason]

\* the amount compared before the recipient
verifyPaymentOffChain_AmountFirst(auth, expectedAmount, t) ==
  IF ~AmountOk(auth, expectedAmount) THEN Invalid("Insufficient amount")
  ELSE IF ~RecipientOk(auth) THEN Invalid("Wrong recipient address")
  ELSE IF ~ValidAfterOk(auth, t) THEN Invalid("Authorization not yet valid")
  ELSE IF ~ValidBeforeOk(auth, t) THEN Invalid("Authorization expired")
  ELSE Valid

verifyPaymentOffChain(auth, expectedAmount, t) ==
  IF ~RecipientOk(auth) THEN Invalid("Wrong recipient address")
  ELSE IF ~AmountOk(auth, expectedAmount) THEN Invalid("Insufficient amount")
  ELSE IF ~ValidAfterOk(auth, t) THEN Invalid("Authorization not yet valid")
  ELSE IF ~ValidBeforeOk(auth, t) THEN Invalid("Authorization expired")
  ELSE Valid

(***************************************************************************)
(* The two chain reads of verifyPayment.  A read is [ok, value]; a read    *)
(* that threw (ok = FALSE) is logged and the check is passed over.         *)
(***************************************************************************)
ReadFailed == [ok |-> FALSE, value |-> 0]
ReadOf(v) == [ok |-> TRUE, value |-> v]

AuthStateCheck(read) ==
  IF read.ok /\ read.value = TRUE
  THEN Invalid("Authorization nonce already used")
  ELSE Valid

BalanceCheck(read, paymentAmount) ==
  IF read.ok /\ read.value < paymentAmount
  THEN Invalid("Payer has insufficient USDC")
  ELSE Valid

\* the receipt's status not looked at
ReceiptOk_AnyStatus(status) == TRUE
\* executePayment: the receipt of the settlement transaction must have status 1
ReceiptOk(status) == status = 1

(***************************************************************************)
(* TestUSDC (EIP-3009) and MinimalForwarder, as the contracts compute.     *)
(* A signature is modelled by the account whose key made it, over exactly  *)
(* the fields it is presented with: ecrecover returns that account.        *)
(***************************************************************************)
\* a token that keeps no record of the authorizations used
authorizationState_NeverUsed(states, authorizer, nonce) == FALSE
\* TestUSDC.authorizationState
authorizationState(states, authorizer, nonce) ==
  <<toLowerCase(authorizer), nonce>> \in states

\* the requires of transferWithAuthorization and of the _transfer it ends with
transferWithAuthorizationOk(states, bals, auth, signature, t) ==
  /\ t > auth.validAfter
  /\ t < auth.validBefore
  /\ ~authorizationState(states, auth.from, auth.nonce)
  /\ signature.signedBy = toLowerCase(auth.from)
  /\ toLowerCase(auth.to) # "0x0000"
  /\ bals[toLowerCase(auth.from)] >= auth.value

\* MinimalForwarder.verify
forwarderVerify(nonces, request, signature, t) ==
  /\ signature.signedBy = toLowerCase(request.from)
  /\ nonces[toLowerCase(request.from)] = request.nonce
  /\ t <= request.deadline

\* the inner call of MinimalForwarder.execute: the target reverts on "0xrevert"
innerCallSuccess(request) == request.data # "0xrevert"

\* the result bytes of the inner call
innerCallResult(request) == IF innerCallSuccess(request) THEN "0x01" ELSE "0xrevertdata"

\* the nonce counted up even by a transaction that reverts
executeNonces_CountReverted(nonces, request, verified) ==
  [nonces EXCEPT ![toLowerCase(request.from)] = @ + 1]
\* the nonce left alone by a transaction that runs
executeNonces_NeverCount(nonces, request, verified) == nonces
\* MinimalForwarder.execute: require(verify(...)); nonces[req.from]++
executeNonces(nonces, request, verified) ==
  IF verified THEN [nonces EXCEPT ![toLowerCase(request.from)] = @ + 1] ELSE nonces

\* MinimalForwarder.execute: emit Executed(req.from, req.to, success, result)
ExecutedEvent(request) ==
  [from |-> request.from, to |-> request.to,
   success |-> innerCallSuccess(request), result |-> innerCallResult(request)]

\* the Executed event not looked at
parseExecuted_Defaults(event) == [success |-> TRUE, result |-> "0x"]
\* ForwarderService.execute: success and result taken from the Executed event
parseExecuted(event) == [success |-> event.success, result |-> event.result]

(***************************************************************************)
(* Relayer pool (RelayerPoolService).                                      *)
(***************************************************************************)
RelayerAddresses == <<"0xr1", "0xr2">>

\* initialize(): one RelayerState per configured key
InitialRelayers ==
  [i \in 1..Len(RelayerAddresses) |->
     [address |-> RelayerAddresses[i], pendingTxCount |-> 0, lastUsed |-> 0, nonce |-> 0]]

\* getRelayer(): the first relayer with the least pendingTxCount
getRelayer(pool) ==
  CHOOSE i \in 1..Len(pool) :
    /\ \A j \in 1..Len(pool) : pool[i].pendingTxCount <= pool[j].pendingTxCount
    /\ \A j \in 1..(i - 1) : pool[j].pendingTxCount > pool[i].pendingTxCount

\* markComplete(relayer)
markComplete(pool, i) ==
  [pool EXCEPT ![i].pendingTxCount = Max(0, @ - 1)]

\* getRelayerRoundRobin(): the index after the one just handed out
NextIndex_SkipOne(index, length) == (index + 2) % length
NextIndex(index, length) == (index + 1) % length

\* getAndIncrementNonce(relayer)
getAndIncrementNonce(pool, i, t) ==
  [pool EXCEPT ![i].nonce = @ + 1, ![i].pendingTxCount = @ + 1, ![i].lastUsed = t]

(***************************************************************************)
(* Inputs: the requests clients send.                                      *)
(***************************************************************************)
Item(nonce, signer, deadline, data) ==
  [request   |-> [from |-> "0xa1", to |-> "0xtarget", value |-> 0, gasK |-> 100,
                  nonce |-> nonce, deadline |-> deadline, data |-> data],
   signature |-> [signedBy |-> signer]]

\* The strings of a request as clients may send them.  The addresses of
\* the model stand for 0x followed by 40 hex digits, "0xok" and "0xrevert"
\* for 0x-prefixed hex strings; "0x123" and "0xzz" have the prefix only,
\* "invalid" and "not-hex" lack it.
Addresses == AddrStrings \cup {"0xtarget", "0xa2"}
HexData == {"0xok", "0xrevert"}
StartsWith0x(s) == s \in Addresses \cup HexData \cup {"0x123", "0xzz"}

\* a numeric field that BigInt() cannot read
NotANumber == -1

\* metaRelaySchema / batchRelaySchema on one request: from, to and data are
\* strings that start with 0x; value, gas, nonce, deadline are any strings
metaRelaySchema(item) ==
  /\ StartsWith0x(item.request.from)
  /\ StartsWith0x(item.request.to)
  /\ StartsWith0x(item.request.data)

\* ForwarderService.verify builds reqTuple with BigInt(...) and ethers encodes
\* it for the call: either throws on a field it cannot read
Encodable(request) ==
  /\ request.from \in Addresses
  /\ request.to \in Addresses
  /\ request.value # NotANumber
  /\ request.gasK # NotANumber
  /\ request.nonce # NotANumber
  /\ request.deadline # NotANumber
  /\ request.data \in HexData

RelayItems ==
  {Item(0, "0xa1", MaxTime + 7, "0xok"), Item(0, "0xa1", MaxTime + 7, "0xrevert"),
   Item(1, "0xa1", MaxTime + 7, "0xok"), Item(0, "0xbad", MaxTime + 7, "0xok"),
   Item(0, "0xa1", 1, "0xok")}

BatchItems ==
  {Item(0, "0xa1", MaxTime + 7, "0xok"), Item(1, "0xa1", MaxTime + 7, "0xok"),
   Item(0, "0xbad", MaxTime + 7, "0xok")}

BatchLists == UNION {[1..n -> BatchItems] : n \in 1..MaxBatch}

\* value, validAfter and validBefore are decimal strings in the envelope; they
\* stand here as the integers BigInt() and Number() read from them
Envelope(to, value, validAfter, validBefore, nonce, signer) ==
  [kind    |-> "envelope",
   payload |-> [signature     |-> [signedBy |-> signer],
                authorization |-> [from |-> "0xp1", to |-> to, value |-> value,
                                   validAfter |-> validAfter,
                                   validBefore |-> validBefore, nonce |-> nonce]]]

\* the envelopes a client may build for a demanded amount: the right one (the
\* recipient in lower case) and ones that miss it in one respect
EnvelopesFor(amount) ==
  {Envelope("0xf40b", amount, 0, MaxTime + 7, "n1", "0xp1"),
   Envelope("0xf40b", amount, 0, MaxTime + 7, "n2", "0xp1"),
   Envelope("0x0000", amount, 0, MaxTime + 7, "n1", "0xp1"),
   Envelope("0xf40b", amount - 1, 0, MaxTime + 7, "n1", "0xp1"),
   Envelope("0xf40b", amount + 1, 1, MaxTime + 7, "n1", "0xp1"),
   Envelope("0xf40b", amount, 0, 2, "n1", "0xp1"),
   Envelope("0xf40b", amount, 0, MaxTime + 7, "n1", "0xbad")}

Header(noise, text) == [kind |-> "string", noise |-> noise, text |-> text]

HeadersFor(amount) ==
  {NoHeader}
    \cup {Header(n, [kind |-> "garbage"]) : n \in BOOLEAN}
    \cup {Header(FALSE, Null), Header(FALSE, [kind |-> "object"])}
    \cup {Header(FALSE, e) : e \in EnvelopesFor(amount)}
    \cup {Header(TRUE, Envelope("0xf40b", amount, 0, MaxTime + 7, "n1", "0xp1"))}

RECURSIVE SumGas(_)
SumGas(items) ==
  IF items = <<>> THEN 0 ELSE Head(items).request.gasK + SumGas(Tail(items))

\* the quote taken at the normal tier whatever the request asks for
RelayAmount_NormalTier(items, priority, gasPriceH, spotMilli) ==
  calculatePrice(items[1].request.gasK, "normal", gasPriceH, spotMilli).finalPriceRaw
\* the amount the controller demands for a body: the quote for request.gas
\* (relay), the discounted quote for the summed gas (batch)
RelayAmount(items, priority, gasPriceH, spotMilli) ==
  calculatePrice(items[1].request.gasK, priority, gasPriceH, spotMilli).finalPriceRaw

\* the quote for the summed gas demanded without the batch discount
BatchAmount_Undiscounted(items, priority, gasPriceH, spotMilli) ==
  calculatePrice(SumGas(items), priority, gasPriceH, spotMilli).finalPriceRaw
BatchAmount(items, priority, gasPriceH, spotMilli) ==
  discountedPrice(calculatePrice(SumGas(items), priority, gasPriceH, spotMilli).finalPriceRaw)

ExpectedAmount(kind, items, priority, gasPriceH, spotMilli) ==
  IF kind = "relay" THEN RelayAmount(items, priority, gasPriceH, spotMilli)
  ELSE BatchAmount(items, priority, gasPriceH, spotMilli)

InvalidBody == [kind |-> "invalid", items |-> <<>>, priority |-> "normal", header |-> NoHeader]
NoReq == [kind |-> "none", items |-> <<>>, priority |-> "normal", header |-> NoHeader]

Bodies(gasPriceH, spotMilli) ==
  {InvalidBody}
    \cup UNION {
      {[kind |-> "relay", items |-> <<it>>, priority |-> p, header |-> h] :
         h \in HeadersFor(RelayAmount(<<it>>, p, gasPriceH, spotMilli))} :
      it \in RelayItems, p \in Priorities}
    \cup UNION {
      {[kind |-> "batch", items |-> its, priority |-> p, header |-> h] :
         h \in HeadersFor(BatchAmount(its, p, gasPriceH, spotMilli))} :
      its \in BatchLists, p \in Priorities}

(***************************************************************************)
(* State.                                                                  *)
(***************************************************************************)
Reqs == {1, 2}

VARIABLES
  now,          \* block.timestamp and Date.now()/1000, taken as one clock
  gasPrice,     \* the node's gas price (feeData.gasPrice)
  croUsdPrice,  \* PricingService.croUsdPrice
  fwdNonces,    \* MinimalForwarder.nonces
  authStates,   \* TestUSDC._authorizationStates, the used (authorizer, nonce)
  balances,     \* TestUSDC balances
  chainTxs,     \* transactions sent to the chain; a transaction's hash is its index
  relayers,     \* RelayerPoolService.relayers
  slots,        \* the request slots in use
  hits,         \* the rate limiters' counters of the current window (one client)
  isRebalancing, \* RebalanceService.isRebalancing
  wallet,       \* the service wallet: CRO, USDC and its allowance to the router
  currentIndex, \* RelayerPoolService.currentIndex
  currentNonce, \* NonceService.currentNonce; Null before initialize()
  pendingNonces, \* NonceService.pendingNonces
  lock,         \* NonceService.lock: the promise the field holds, by its maker
  resolved,     \* the promises of NonceService.lock that are resolved
  txCount,      \* the chain's pending transaction count of the service wallet
  faucetCooldowns, \* faucet.controller faucetCooldowns: address -> last mint
  pc,           \* where each request's handler stands
  req,          \* the body and header of each request
  loc,          \* the handler's local variables
  resp,         \* the response sent
  trace         \* what the handler has done so far, in order

vars == <<env, now, gasPrice, croUsdPrice, fwdNonces, authStates, balances, chainTxs,
          relayers, slots, hits, isRebalancing, wallet, currentIndex, currentNonce,
          pendingNonces, lock, resolved, txCount, faucetCooldowns,
          pc, req, loc, resp, trace>>

chainVars == <<fwdNonces, authStates, balances, chainTxs>>
rebalanceVars == <<isRebalancing, wallet>>
serviceVars == <<currentIndex, currentNonce, pendingNonces, lock, resolved, txCount,
                 faucetCooldowns>>
envVars == <<env, now, gasPrice, croUsdPrice, slots, hits, rebalanceVars, serviceVars>>

NoLoc == [idx |-> 0, expected |-> 0, payment |-> Null, paymentTxHash |-> 0,
          pendingTx |-> 0, relayer |-> 0, results |-> <<>>]

NoResp == [status |-> 0, error |-> "", message |-> "", maxAmountRequired |-> 0,
           paymentTxHash |-> 0, txHash |-> 0, success |-> FALSE, result |-> "",
           index |-> 0, results |-> <<>>, priceUSDC |-> 0, pricing |-> <<>>,
           validUntil |-> 0]

Response(status, error, message) ==
  [NoResp EXCEPT !.status = status, !.error = error, !.message = message]

InitChain ==
  /\ fwdNonces = [a \in {"0xa1"} |-> 0]
  /\ authStates \in {{}, {<<"0xp1", "n1">>}}
  /\ balances \in {[a \in {"0xp1", "0xf40b"} |-> IF a = "0xp1" THEN b ELSE 0] :
                    b \in {50000, 400000}}
  /\ chainTxs = <<>>

\* nothing counted by the limiters yet, no rebalance under way
NoHits == [general |-> 0, relay |-> 0, estimate |-> 0]

\* NonceService.currentNonce before initialize(): null
NoNonce == -1

\* the services not yet called: the pool's round-robin index, the nonce
\* service before initialize(), an empty cooldown map
InitIdleServices ==
  /\ currentIndex = 0
  /\ currentNonce = NoNonce
  /\ pendingNonces = {}
  /\ lock = 0
  /\ resolved = {0}
  /\ txCount = 0
  /\ faucetCooldowns = <<>>

InitServices ==
  /\ hits = NoHits
  /\ isRebalancing = FALSE
  /\ wallet = [cro |-> TARGET_CRO_BALANCE, usdc |-> 0, allowance |-> 0]
  /\ InitIdleServices

InitServer ==
  /\ relayers = InitialRelayers
  /\ pc = [r \in Reqs |-> "idle"]
  /\ req = [r \in Reqs |-> NoReq]
  /\ loc = [r \in Reqs |-> NoLoc]
  /\ resp = [r \in Reqs |-> NoResp]
  /\ trace = [r \in Reqs |-> <<>>]

Init ==
  /\ env = DefaultEnv
  /\ InitServices
  /\ now = 1
  /\ gasPrice \in {0, 20}
  /\ croUsdPrice = DEFAULT_CRO_USD_MILLI
  /\ slots = {1}
  /\ InitChain
  /\ InitServer

(***************************************************************************)
(* Steps of a handler.                                                     *)
(***************************************************************************)
Respond(r, response) ==
  /\ pc' = [pc EXCEPT ![r] = "done"]
  /\ resp' = [resp EXCEPT ![r] = response]
  /\ loc' = [loc EXCEPT ![r] = NoLoc]

Goto(r, label, newloc) ==
  /\ pc' = [pc EXCEPT ![r] = label]
  /\ loc' = [loc EXCEPT ![r] = newloc]
  /\ UNCHANGED resp

Log(r, events) == trace' = [trace EXCEPT ![r] = @ \o events]

RpcOutcomes == {"ok", "error"}

(***************************************************************************)
(* Rate limiting (middleware/rateLimit, mounted in the app before the      *)
(* routes).  A limiter counts the request and answers 429 itself when its  *)
(* count of the window exceeds max; otherwise the request goes on to the   *)
(* next middleware.  One client (one req.ip) is followed.                  *)
(***************************************************************************)
\* the path a body is sent to; an invalid body stands for either /meta route
PathOf(kind) ==
  CASE kind = "batch"    -> "/meta/batch"
    [] kind = "estimate" -> "/estimate"
    [] OTHER             -> "/meta/relay"

\* app.use("/relay", relayLimiter); app.use("/estimate", estimateLimiter);
\* app.use(generalLimiter): the limiters a path runs through, in order
Limiters(path) ==
  IF path = "/relay" THEN <<"relay", "general">>
  ELSE IF path = "/estimate" THEN <<"estimate", "general">>
  ELSE <<"general">>

LimiterMax == [general |-> GENERAL_MAX, relay |-> RELAY_MAX, estimate |-> ESTIMATE_MAX]

LimiterMessage ==
  [general  |-> "Too many requests, please try again later",
   relay    |-> "Too many relay requests, please try again later",
   estimate |-> "Too many estimation requests"]

RECURSIVE PassLimiters(_, _)
PassLimiters(counts, limiters) ==
  IF limiters = <<>> THEN [hits |-> counts, limitedBy |-> "none"]
  ELSE LET l == Head(limiters)
           counted == [counts EXCEPT ![l] = @ + 1]
       IN  IF counted[l] > LimiterMax[l]
           THEN [hits |-> counted, limitedBy |-> l]
           ELSE PassLimiters(counted, Tail(limiters))

\* a request arrives: the limiters of its path, then the controller's
\* safeParse of the body or query; an invalid one is answered 400
Arrive(r, body) ==
  /\ r \in slots
  /\ pc[r] = "idle"
  /\ LET pass == PassLimiters(hits, Limiters(PathOf(body.kind)))
     IN  /\ hits' = pass.hits
         /\ req' = [req EXCEPT ![r] = body]
         /\ trace' = [trace EXCEPT ![r] = <<>>]
         /\ IF pass.limitedBy # "none"
            THEN Respond(r, Response(429, "RATE_LIMITED", LimiterMessage[pass.limitedBy]))
            ELSE IF \/ body.kind = "invalid"
                    \/ body.items = <<>>
                    \/ /\ body.kind \in {"relay", "batch"}
                       /\ \E i \in 1..Len(body.items) : ~metaRelaySchema(body.items[i])
            THEN Respond(r, Response(400, "Invalid request", ""))
            ELSE /\ pc' = [pc EXCEPT ![r] = IF body.kind = "estimate"
                                             THEN "estimateGas" ELSE "verify"]
                 /\ loc' = [loc EXCEPT ![r] = [NoLoc EXCEPT !.idx = 1]]
                 /\ resp' = [resp EXCEPT ![r] = NoResp]
  /\ UNCHANGED <<chainVars, env, now, gasPrice, croUsdPrice, slots, rebalanceVars, serviceVars, relayers>>

Receive(r) ==
  /\ r \in slots
  /\ pc[r] = "idle"
  /\ \E body \in Bodies(getGasPrice(gasPrice), croUsdPrice) : Arrive(r, body)

\* the gas the node estimates for the call of an /estimate query, in
\* thousands; 0 when estimateGas throws
NodeEstimates == {0, 50, 100}

\* PricingService.estimateGas: the estimate with a 20 % buffer, 100000 on error
estimateGas(nodeEstimate) ==
  IF nodeEstimate = 0 THEN 100 ELSE (nodeEstimate * 120) \div 100

\* estimateController: the quote of the requested tier, or of every tier
\* when the query names none
Estimate(r) ==
  /\ pc[r] = "estimateGas"
  /\ \E nodeEstimate \in NodeEstimates :
       LET gasK == estimateGas(nodeEstimate)
           price(p) == calculatePrice(gasK, p, getGasPrice(gasPrice), croUsdPrice).finalPriceRaw
       IN  /\ Respond(r, IF req[r].priority \in Priorities
                         THEN [Response(200, "", "") EXCEPT
                                 !.priceUSDC = price(req[r].priority)]
                         ELSE [Response(200, "", "") EXCEPT
                                 !.pricing = [p \in Priorities |-> price(p)]])
           /\ Log(r, <<"estimateGas", "price">>)
  /\ UNCHANGED <<chainVars, envVars, relayers, req>>

\* the response has been sent; the next request of the client can come
Finish(r) ==
  /\ pc[r] = "done"
  /\ pc' = [pc EXCEPT ![r] = "idle"]
  /\ req' = [req EXCEPT ![r] = NoReq]
  /\ loc' = [loc EXCEPT ![r] = NoLoc]
  /\ resp' = [resp EXCEPT ![r] = NoResp]
  /\ trace' = [trace EXCEPT ![r] = <<>>]
  /\ UNCHANGED <<chainVars, envVars, relayers>>

\* windowMs have passed: the stores of the limiters start a new window
WindowReset ==
  /\ hits # NoHits
  /\ hits' = NoHits
  /\ UNCHANGED <<chainVars, env, now, gasPrice, croUsdPrice, slots, rebalanceVars, serviceVars,
                 relayers, pc, req, loc, resp, trace>>

\* ForwarderService.verify: the contract's verify view; false when the call throws
ServiceVerify(rpc, item, nonces, t) ==
  IF rpc = "error" \/ ~Encodable(item.request) THEN FALSE
  ELSE forwarderVerify(nonces, item.request, item.signature, t)

\* a request that does not verify answered like one that has not paid
InvalidSignatureResponse_AsUnpaid(kind, i) == Response(402, "Payment Required", "")
\* the batch index counted from 1
InvalidSignatureResponse_OneBased(kind, i) ==
  IF kind = "relay"
  THEN Response(400, "INVALID_SIGNATURE", "Meta-transaction signature verification failed")
  ELSE [Response(400, "INVALID_SIGNATURE", "Meta-transaction signature verification failed")
          EXCEPT !.index = i + 1]
\* the controllers' answer to a request that does not verify
InvalidSignatureResponse(kind, i) ==
  IF kind = "relay"
  THEN Response(400, "INVALID_SIGNATURE", "Meta-transaction signature verification failed")
  ELSE [Response(400, "INVALID_SIGNATURE", "Meta-transaction signature verification failed")
          EXCEPT !.index = i]

\* metaRelayController / metaBatchController: verify the signature(s) first
VerifySignature(r) ==
  /\ pc[r] = "verify"
  /\ \E rpc \in RpcOutcomes :
       LET i == loc[r].idx
           isValid == ServiceVerify(rpc, req[r].items[i], fwdNonces, now)
       IN  /\ Log(r, <<IF rpc = "error" THEN "verifyThrew"
                        ELSE IF isValid THEN "verifyTrue" ELSE "verifyFalse">>)
           /\ IF ~isValid
              THEN Respond(r, InvalidSignatureResponse(req[r].kind, i - 1))
              ELSE IF i < Len(req[r].items)
              THEN Goto(r, "verify", [loc[r] EXCEPT !.idx = i + 1])
              ELSE Goto(r, "price", [loc[r] EXCEPT !.idx = 0])
  /\ UNCHANGED <<chainVars, envVars, relayers, req>>

InternalError == Response(500, "INTERNAL_ERROR", "An unexpected error occurred")

\* the 402 answer to a request without a payment header; validUntil is the
\* quote's, Date.now() + QUOTE_VALIDITY_SECONDS
PaymentRequired(amount) ==
  [Response(402, "Payment Required", "") EXCEPT
     !.maxAmountRequired = amount, !.validUntil = now + QUOTE_VALIDITY_SECONDS]

PaymentInvalid(reason) == Response(402, "PAYMENT_INVALID", reason)

\* the error of executePayment left to the error middleware
PaymentFailed_Unhandled == Response(500, "INTERNAL_ERROR", "An unexpected error occurred")
\* the controllers' answer when executePayment throws
PaymentFailed == Response(402, "PAYMENT_FAILED", "Failed to execute payment transfer")

\* calculatePrice (after the gas price read), then, without a further await:
\* the 402 quote, parsePaymentHeader, and verifyPayment up to its first chain read
PriceAndCheck(r) ==
  /\ pc[r] = "price"
  /\ LET amount == ExpectedAmount(req[r].kind, req[r].items, req[r].priority,
                                  getGasPrice(gasPrice), croUsdPrice)
         payment == parsePaymentHeader(req[r].header)
     IN  IF req[r].header = NoHeader
         THEN /\ Respond(r, PaymentRequired(amount))
              /\ Log(r, <<"price">>)
         ELSE IF payment = Null
         THEN /\ Respond(r, Response(400, "INVALID_PAYMENT",
                                     "Could not parse x402 payment header"))
              /\ Log(r, <<"price", "parse">>)
         ELSE IF payment.kind # "envelope"
         THEN \* payment.payload is undefined: verifyPayment throws a TypeError
              /\ Respond(r, InternalError)
              /\ Log(r, <<"price", "parse", "verifyPayment">>)
         ELSE LET off == verifyPaymentOffChain(payment.payload.authorization,
                                               amount, now)
              IN  /\ Log(r, <<"price", "parse", "verifyPayment">>)
                  /\ IF ~off.valid
                     THEN Respond(r, PaymentInvalid(off.reason))
                     ELSE Goto(r, "authRead",
                               [loc[r] EXCEPT !.expected = amount,
                                              !.payment = payment])
  /\ UNCHANGED <<chainVars, envVars, relayers, req>>

\* verifyPayment: await usdcContract.authorizationState(auth.from, auth.nonce)
AuthStateRead(r) ==
  /\ pc[r] = "authRead"
  /\ \E rpc \in RpcOutcomes :
       LET auth == loc[r].payment.payload.authorization
           read == IF rpc = "error" THEN ReadFailed
                   ELSE ReadOf(authorizationState(authStates, auth.from, auth.nonce))
           chk  == AuthStateCheck(read)
       IN  /\ Log(r, <<IF read.ok THEN "authRead" ELSE "authReadFailed">>)
           /\ IF ~chk.valid
              THEN Respond(r, PaymentInvalid(chk.reason))
              ELSE Goto(r, "balRead", loc[r])
  /\ UNCHANGED <<chainVars, envVars, relayers, req>>

\* verifyPayment: await usdcContract.balanceOf(auth.from); on success the
\* controller goes on to executePayment
BalanceRead(r) ==
  /\ pc[r] = "balRead"
  /\ \E rpc \in RpcOutcomes :
       LET auth == loc[r].payment.payload.authorization
           read == IF rpc = "error" THEN ReadFailed
                   ELSE ReadOf(balances[toLowerCase(auth.from)])
           chk  == BalanceCheck(read, auth.value)
       IN  /\ Log(r, <<IF read.ok THEN "balRead" ELSE "balReadFailed">>)
           /\ IF ~chk.valid
              THEN Respond(r, PaymentInvalid(chk.reason))
              ELSE Goto(r, "settleSend", loc[r])
  /\ UNCHANGED <<chainVars, envVars, relayers, req>>

\* a transaction sent without a gasPrice override: ethers fills in the gas
\* price the node states at that moment (0: the node states none)
PaymentTx(payment) ==
  [kind |-> "transferWithAuthorization", mined |-> FALSE, status |-> 0,
   success |-> FALSE, call |-> payment.payload, result |-> "", gasPrice |-> gasPrice]

\* executePayment: await usdcContract.transferWithAuthorization(...).  The call
\* throws when the node cannot be reached or when the gas estimation of a
\* transfer that would revert fails; otherwise the transaction is sent
SettleSend(r) ==
  /\ pc[r] = "settleSend"
  /\ \E rpc \in RpcOutcomes :
       LET payment == loc[r].payment
           sendable == transferWithAuthorizationOk(authStates, balances,
                         payment.payload.authorization, payment.payload.signature, now)
       IN  IF rpc = "error" \/ ~sendable
           THEN /\ Respond(r, PaymentFailed)
                /\ Log(r, <<IF rpc = "error" THEN "settleError" ELSE "settleRevert",
                            "settleThrow">>)
                /\ UNCHANGED chainTxs
           ELSE /\ chainTxs' = Append(chainTxs, PaymentTx(payment))
                /\ Goto(r, "settleWait", [loc[r] EXCEPT !.pendingTx = Len(chainTxs) + 1])
                /\ Log(r, <<"settleSent">>)
  /\ UNCHANGED <<fwdNonces, authStates, balances, envVars, relayers, req>>

\* the transaction is mined (TestUSDC.transferWithAuthorization runs) and
\* executePayment sees the receipt; with status 1 the controller goes on to
\* forwarderService.execute, which takes a relayer from the pool
SettleMine(r) ==
  /\ pc[r] = "settleWait"
  /\ LET h == loc[r].pendingTx
         auth == chainTxs[h].call.authorization
         payer == toLowerCase(auth.from)
         payee == toLowerCase(auth.to)
         ok == transferWithAuthorizationOk(authStates, balances, auth,
                                            chainTxs[h].call.signature, now)
         status == IF ok THEN 1 ELSE 0
     IN  /\ chainTxs' = [chainTxs EXCEPT ![h].mined = TRUE, ![h].status = status,
                                         ![h].success = ok]
         /\ authStates' = IF ok THEN authStates \cup {<<payer, auth.nonce>>} ELSE authStates
         /\ balances' = IF ok
                        THEN [balances EXCEPT ![payer] = @ - auth.value,
                                              ![payee] = @ + auth.value]
                        ELSE balances
         /\ IF ReceiptOk(status)
            THEN /\ Goto(r, "execEstimate",
                         [loc[r] EXCEPT !.paymentTxHash = h, !.pendingTx = 0, !.idx = 1,
                                        !.relayer = getRelayer(relayers)])
                 /\ Log(r, <<IF ok THEN "receipt1" ELSE "receipt0", "execute">>)
            ELSE /\ Respond(r, PaymentFailed)
                 /\ Log(r, <<IF ok THEN "receipt1" ELSE "receipt0">>)
  /\ UNCHANGED <<fwdNonces, envVars, relayers, req>>

\* forwarderWithRelayer.execute(reqTuple, signature, {value, gasLimit}): no
\* gasPrice override either
ForwardTx(item) ==
  [kind |-> "execute", mined |-> FALSE, status |-> 0, success |-> FALSE, call |-> item,
   result |-> "", gasPrice |-> gasPrice]

\* nothing is returned by a forwarderService.execute that threw
NoResult == [success |-> FALSE, result |-> ""]

\* a batch that gives up at the first forwarderService.execute that throws
ExecFinished_StopAtFailure(r, threw, returned, txHash, pool) ==
  IF req[r].kind = "relay"
  THEN IF threw
       THEN Respond(r, InternalError)
       ELSE Respond(r, [Response(200, "", "") EXCEPT
                          !.success = returned.success, !.txHash = txHash,
                          !.paymentTxHash = loc[r].paymentTxHash,
                          !.result = returned.result])
  ELSE LET results == Append(loc[r].results,
                             [success |-> ~threw /\ returned.success,
                              txHash |-> IF threw THEN 0 ELSE txHash])
       IN  IF loc[r].idx < Len(req[r].items) /\ ~threw
           THEN Goto(r, "execEstimate",
                     [loc[r] EXCEPT !.results = results, !.idx = @ + 1, !.pendingTx = 0,
                                    !.relayer = getRelayer(pool)])
           ELSE Respond(r, [Response(200, "", "") EXCEPT
                              !.success = \A k \in 1..Len(results) : results[k].success,
                              !.paymentTxHash = loc[r].paymentTxHash,
                              !.results = results])

\* what the controller does with the outcome of one forwarderService.execute:
\* /meta/relay answers (200, or 500 through the error middleware when execute
\* threw); /meta/batch records the item and goes on with the next one
ExecFinished(r, threw, returned, txHash, pool) ==
  IF req[r].kind = "relay"
  THEN IF threw
       THEN Respond(r, InternalError)
       ELSE Respond(r, [Response(200, "", "") EXCEPT
                          !.success = returned.success, !.txHash = txHash,
                          !.paymentTxHash = loc[r].paymentTxHash,
                          !.result = returned.result])
  ELSE LET results == Append(loc[r].results,
                             [success |-> ~threw /\ returned.success,
                              txHash |-> IF threw THEN 0 ELSE txHash])
       IN  IF loc[r].idx < Len(req[r].items)
           THEN Goto(r, "execEstimate",
                     [loc[r] EXCEPT !.results = results, !.idx = @ + 1, !.pendingTx = 0,
                                    !.relayer = getRelayer(pool)])
           ELSE Respond(r, [Response(200, "", "") EXCEPT
                              !.success = \A k \in 1..Len(results) : results[k].success,
                              !.paymentTxHash = loc[r].paymentTxHash,
                              !.results = results])

ExecEvents(r, events) ==
  Log(r, IF req[r].kind = "batch" /\ loc[r].idx < Len(req[r].items)
         THEN events \o <<"execute">> ELSE events)

\* ForwarderService.execute: await forwarderWithRelayer.execute.estimateGas(...);
\* the estimate throws when the call would revert (require(verify(...)))
ExecEstimate(r) ==
  /\ pc[r] = "execEstimate"
  /\ \E rpc \in RpcOutcomes :
       LET item == req[r].items[loc[r].idx]
           wouldRun == forwarderVerify(fwdNonces, item.request, item.signature, now)
       IN  IF rpc = "error" \/ ~wouldRun
           THEN /\ relayers' = markComplete(relayers, loc[r].relayer)
                /\ ExecFinished(r, TRUE, NoResult, 0, relayers')
                /\ ExecEvents(r, <<IF rpc = "error" THEN "estimateError" ELSE "estimateRevert",
                                   "execThrow">>)
           ELSE /\ Goto(r, "execSend", loc[r])
                /\ Log(r, <<"estimated">>)
                /\ UNCHANGED relayers
  /\ UNCHANGED <<chainVars, envVars, req>>

\* ForwarderService.execute: await forwarderWithRelayer.execute(reqTuple, signature, ...)
ExecSend(r) ==
  /\ pc[r] = "execSend"
  /\ \E rpc \in RpcOutcomes :
       IF rpc = "error"
       THEN /\ relayers' = markComplete(relayers, loc[r].relayer)
            /\ ExecFinished(r, TRUE, NoResult, 0, relayers')
            /\ ExecEvents(r, <<"sendError", "execThrow">>)
            /\ UNCHANGED chainTxs
       ELSE /\ chainTxs' = Append(chainTxs, ForwardTx(req[r].items[loc[r].idx]))
            /\ Goto(r, "execWait", [loc[r] EXCEPT !.pendingTx = Len(chainTxs) + 1])
            /\ Log(r, <<"execSent">>)
            /\ UNCHANGED relayers
  /\ UNCHANGED <<fwdNonces, authStates, balances, envVars, req>>

\* the transaction is mined (MinimalForwarder.execute runs) and tx.wait()
\* returns the receipt, or throws for a reverted transaction
ExecMine(r) ==
  /\ pc[r] = "execWait"
  /\ LET h == loc[r].pendingTx
         item == chainTxs[h].call
         ok == forwarderVerify(fwdNonces, item.request, item.signature, now)
         event == ExecutedEvent(item.request)
         returned == IF ok THEN parseExecuted(event) ELSE NoResult
     IN  /\ chainTxs' = [chainTxs EXCEPT ![h].mined = TRUE,
                                         ![h].status = IF ok THEN 1 ELSE 0,
                                         ![h].success = ok /\ event.success,
                                         ![h].result = IF ok THEN event.result ELSE ""]
         /\ fwdNonces' = executeNonces(fwdNonces, item.request, ok)
         /\ relayers' = markComplete(relayers, loc[r].relayer)
         /\ ExecFinished(r, ~ok, returned, h, relayers')
         /\ ExecEvents(r, <<IF ok THEN "execMined1" ELSE "execMined0">>
                             \o (IF ok THEN <<>> ELSE <<"execThrow">>))
  /\ UNCHANGED <<authStates, balances, envVars, req>>

\* time passes
Tick ==
  /\ now < MaxTime
  /\ now' = now + 1
  /\ UNCHANGED <<env, gasPrice, croUsdPrice, slots, hits, rebalanceVars, serviceVars, chainVars,
                 relayers, pc, req, loc, resp, trace>>

Next ==
  \/ \E r \in Reqs :
       \/ Receive(r)
       \/ VerifySignature(r)
       \/ PriceAndCheck(r)
       \/ AuthStateRead(r)
       \/ BalanceRead(r)
       \/ SettleSend(r)
       \/ SettleMine(r)
       \/ ExecEstimate(r)
       \/ ExecSend(r)
       \/ ExecMine(r)
  \/ Tick

Spec == Init /\ [][Next]_vars

\* The steps of a handler that the server itself takes: every await of a
\* chain call (a read, a gas estimation, the sending of a transaction)
\* returns or throws, so a handler standing before one goes on.
HandlerStep(r) ==
  \/ VerifySignature(r)
  \/ PriceAndCheck(r)
  \/ AuthStateRead(r)
  \/ BalanceRead(r)
  \/ SettleSend(r)
  \/ ExecEstimate(r)
  \/ ExecSend(r)

\* The server under its scheduling.  A handler is resumed whenever its await
\* settles.  tx.wait() is called without a timeout (payment.service line 148,
\* ForwarderService.execute line 255) and settles only when the chain includes
\* the transaction in a block, which nothing obliges the chain to do: the
\* steps SettleMine and ExecMine are possible, never due.
SpecLive == Spec /\ \A r \in Reqs : WF_vars(HandlerStep(r))

(***************************************************************************)
(* payment.verify on its own: a /meta/relay request whose signature has    *)
(* verified, carrying an envelope drawn from every combination of          *)
(* recipient, amount and validity window, against every chain state.       *)
(***************************************************************************)
VerifyItem == Item(0, "0xa1", MaxTime + 7, "0xok")

VerifyAmount == RelayAmount(<<VerifyItem>>, "normal", DEFAULT_GAS_PRICE_H, DEFAULT_CRO_USD_MILLI)

VerifyEnvelopes ==
  {Envelope(to, value, validAfter, validBefore, "n1", "0xp1") :
     to \in {"0xF40B", "0xf40b", "0x0000"},
     value \in {VerifyAmount - 1, VerifyAmount, VerifyAmount + 1},
     validAfter \in 0..MaxTime,
     validBefore \in 1..(MaxTime + 1)}

InitVerify ==
  /\ env = DefaultEnv
  /\ InitServices
  /\ now \in 1..MaxTime
  /\ gasPrice = 0
  /\ croUsdPrice = DEFAULT_CRO_USD_MILLI
  /\ slots = {1}
  /\ fwdNonces = [a \in {"0xa1"} |-> 0]
  /\ authStates \in {{}, {<<"0xp1", "n1">>}}
  /\ balances \in {[a \in {"0xp1", "0xf40b"} |-> IF a = "0xp1" THEN b ELSE 0] :
                    b \in {VerifyAmount, VerifyAmount + 1}}
  /\ chainTxs = <<>>
  /\ relayers = InitialRelayers
  /\ \E e \in VerifyEnvelopes :
       req = [r \in Reqs |->
                IF r = 1
                THEN [kind |-> "relay", items |-> <<VerifyItem>>, priority |-> "normal",
                      header |-> Header(FALSE, e)]
                ELSE NoReq]
  /\ pc = [r \in Reqs |-> IF r = 1 THEN "price" ELSE "idle"]
  /\ loc = [r \in Reqs |-> NoLoc]
  /\ resp = [r \in Reqs |-> NoResp]
  /\ trace = [r \in Reqs |-> IF r = 1 THEN <<"verifyTrue">> ELSE <<>>]

NextVerify ==
  \/ PriceAndCheck(1)
  \/ AuthStateRead(1)
  \/ BalanceRead(1)

SpecVerify == InitVerify /\ [][NextVerify]_vars

(***************************************************************************)
(* Two /meta/relay requests in the server at once.  Both carry the same    *)
(* signed ForwardRequest; each has a payment envelope for the quoted       *)
(* amount, the second one either its own (nonce n2) or a copy of the first *)
(* one's (nonce n1).  Their steps interleave freely.                       *)
(***************************************************************************)
RaceItem == Item(0, "0xa1", MaxTime + 7, "0xok")

RaceAmount == RelayAmount(<<RaceItem>>, "normal", DEFAULT_GAS_PRICE_H, DEFAULT_CRO_USD_MILLI)

RaceBody(nonce) ==
  [kind |-> "relay", items |-> <<RaceItem>>, priority |-> "normal",
   header |-> Header(FALSE, Envelope("0xf40b", RaceAmount, 0, MaxTime + 7, nonce, "0xp1"))]

InitRace ==
  /\ env = DefaultEnv
  /\ InitServices
  /\ now = 1
  /\ gasPrice = 0
  /\ croUsdPrice = DEFAULT_CRO_USD_MILLI
  /\ slots = Reqs
  /\ fwdNonces = [a \in {"0xa1"} |-> 0]
  /\ authStates = {}
  /\ balances = [a \in {"0xp1", "0xf40b"} |-> IF a = "0xp1" THEN 400000 ELSE 0]
  /\ chainTxs = <<>>
  /\ relayers = InitialRelayers
  /\ \E nonce \in {"n1", "n2"} :
       req = [r \in Reqs |-> IF r = 1 THEN RaceBody("n1") ELSE RaceBody(nonce)]
  /\ pc = [r \in Reqs |-> "verify"]
  /\ loc = [r \in Reqs |-> [NoLoc EXCEPT !.idx = 1]]
  /\ resp = [r \in Reqs |-> NoResp]
  /\ trace = [r \in Reqs |-> <<>>]

NextRace ==
  \/ \E r \in Reqs :
       \/ VerifySignature(r)
       \/ PriceAndCheck(r)
       \/ AuthStateRead(r)
       \/ BalanceRead(r)
       \/ SettleSend(r)
       \/ SettleMine(r)
       \/ ExecEstimate(r)
       \/ ExecSend(r)
       \/ ExecMine(r)
  \/ Tick

SpecRace == InitRace /\ [][NextRace]_vars

(***************************************************************************)
(* Two /meta/relay requests in the server at once that present the same    *)
(* payment.  The first is agent 0xa1's; the second carries the same        *)
(* ForwardRequest or one of agent 0xa2, and a copy of the first one's      *)
(* envelope (nonce n1) or an envelope of its own (nonce n2).               *)
(***************************************************************************)
PayRaceItems ==
  {RaceItem,
   [request   |-> [RaceItem.request EXCEPT !.from = "0xa2"],
    signature |-> [signedBy |-> "0xa2"]]}

InitPayRace ==
  /\ env = DefaultEnv
  /\ InitServices
  /\ now = 1
  /\ gasPrice = 0
  /\ croUsdPrice = DEFAULT_CRO_USD_MILLI
  /\ slots = Reqs
  /\ fwdNonces = [a \in {"0xa1", "0xa2"} |-> 0]
  /\ authStates = {}
  /\ balances = [a \in {"0xp1", "0xf40b"} |-> IF a = "0xp1" THEN 400000 ELSE 0]
  /\ chainTxs = <<>>
  /\ relayers = InitialRelayers
  /\ \E nonce \in {"n1", "n2"} : \E it \in PayRaceItems :
       req = [r \in Reqs |-> IF r = 1 THEN RaceBody("n1")
                             ELSE [RaceBody(nonce) EXCEPT !.items = <<it>>]]
  /\ pc = [r \in Reqs |-> "verify"]
  /\ loc = [r \in Reqs |-> [NoLoc EXCEPT !.idx = 1]]
  /\ resp = [r \in Reqs |-> NoResp]
  /\ trace = [r \in Reqs |-> <<>>]

SpecPayRace == InitPayRace /\ [][NextRace]_vars

(***************************************************************************)
(* Quotes on their own: two /meta/relay requests for the same gas, without *)
(* a payment header, at any two tiers, priced at the same node gas price   *)
(* and spot price, over a grid that reaches the floor and the cap, under   *)
(* configurations the env schema accepts: no markup, the default and the   *)
(* largest one; a minimum price below the 0.005 USD floor, the default,    *)
(* and one whose fast-tier floor lies above MAX_PRICE_USDC.                *)
(***************************************************************************)
PriceGasK == {1, 21, 100, 1000, 10000}
PriceGasPrices == {0, 10, 20, 100}
PriceSpots == {50, 150, 1000}
PriceEnvs ==
  {[MARKUP_PERCENTAGE |-> m, MIN_PRICE_USDC |-> p] :
     m \in {0, MARKUP_PERCENTAGE, 100}, p \in {1000, MIN_PRICE_MICRO, 6000000}}

PriceBody(gasK, priority) ==
  [kind |-> "relay",
   items |-> <<[Item(0, "0xa1", MaxTime + 7, "0xok") EXCEPT !.request.gasK = gasK]>>,
   priority |-> priority, header |-> NoHeader]

InitPrice ==
  /\ env \in PriceEnvs
  /\ InitServices
  /\ now = 1
  /\ gasPrice \in PriceGasPrices
  /\ croUsdPrice \in PriceSpots
  /\ slots = Reqs
  /\ fwdNonces = [a \in {"0xa1"} |-> 0]
  /\ authStates = {}
  /\ balances = [a \in {"0xp1", "0xf40b"} |-> 0]
  /\ chainTxs = <<>>
  /\ relayers = InitialRelayers
  /\ \E gasK \in PriceGasK : \E p1, p2 \in Priorities :
       req = [r \in Reqs |-> IF r = 1 THEN PriceBody(gasK, p1) ELSE PriceBody(gasK, p2)]
  /\ pc = [r \in Reqs |-> "price"]
  /\ loc = [r \in Reqs |-> NoLoc]
  /\ resp = [r \in Reqs |-> NoResp]
  /\ trace = [r \in Reqs |-> <<"verifyTrue">>]

NextPrice == \E r \in Reqs : PriceAndCheck(r)

SpecPrice == InitPrice /\ [][NextPrice]_vars

(***************************************************************************)
(* Quotes of the normal tier on a finer grid: gas prices and spot prices   *)
(* that leave digits beyond the sixth decimal of the price in USD.  At the *)
(* normal tier the gas price multiplier is 1.0, so the adjusted gas price  *)
(* is the node's for every gas price.  The prices of this grid lie at      *)
(* least 0.02 base units away from a half, far more than the error of the  *)
(* floating-point products.                                                *)
(***************************************************************************)
NormalGasK == {21, 100, 500}
NormalGasPrices == {50, 51, 500}
NormalSpots == {150, 151, 200}
NormalEnvs ==
  {[MARKUP_PERCENTAGE |-> m, MIN_PRICE_USDC |-> MIN_PRICE_MICRO] :
     m \in {MARKUP_PERCENTAGE, 100}}

InitNormalPrice ==
  /\ env \in NormalEnvs
  /\ InitServices
  /\ now = 1
  /\ gasPrice \in NormalGasPrices
  /\ croUsdPrice \in NormalSpots
  /\ slots = Reqs
  /\ fwdNonces = [a \in {"0xa1"} |-> 0]
  /\ authStates = {}
  /\ balances = [a \in {"0xp1", "0xf40b"} |-> 0]
  /\ chainTxs = <<>>
  /\ relayers = InitialRelayers
  /\ \E g1, g2 \in NormalGasK :
       req = [r \in Reqs |-> PriceBody(IF r = 1 THEN g1 ELSE g2, "normal")]
  /\ pc = [r \in Reqs |-> "price"]
  /\ loc = [r \in Reqs |-> NoLoc]
  /\ resp = [r \in Reqs |-> NoResp]
  /\ trace = [r \in Reqs |-> <<"verifyTrue">>]

SpecNormalPrice == InitNormalPrice /\ [][NextPrice]_vars

(***************************************************************************)
(* Batch prices on their own: one /meta/batch request whose signatures     *)
(* have verified, for 1..MaxBatch requests of 21000 or 100000 gas each, at *)
(* any tier, without a payment header or with an envelope for the demanded *)
(* amount or one base unit less.                                           *)
(***************************************************************************)
BatchPriceGasK == {21, 100}
BatchPriceGasPrices == {0, 10, 50}

BatchPriceLists ==
  UNION {[1..n -> {[Item(0, "0xa1", MaxTime + 7, "0xok") EXCEPT !.request.gasK = g] :
                     g \in BatchPriceGasK}] : n \in 1..MaxBatch}

BatchPriceHeaders(amount) ==
  {NoHeader}
    \cup {Header(FALSE, Envelope("0xf40b", v, 0, MaxTime + 7, "n1", "0xp1")) :
            v \in {amount - 1, amount}}

InitBatchPrice ==
  /\ env = DefaultEnv
  /\ InitServices
  /\ now = 1
  /\ gasPrice \in BatchPriceGasPrices
  /\ croUsdPrice \in PriceSpots
  /\ slots = {1}
  /\ fwdNonces = [a \in {"0xa1"} |-> 0]
  /\ authStates = {}
  /\ balances = [a \in {"0xp1", "0xf40b"} |-> IF a = "0xp1" THEN 400000 ELSE 0]
  /\ chainTxs = <<>>
  /\ relayers = InitialRelayers
  /\ \E its \in BatchPriceLists : \E p \in Priorities :
       \E h \in BatchPriceHeaders(BatchAmount(its, p, getGasPrice(gasPrice), croUsdPrice)) :
         req = [r \in Reqs |->
                  IF r = 1
                  THEN [kind |-> "batch", items |-> its, priority |-> p, header |-> h]
                  ELSE NoReq]
  /\ pc = [r \in Reqs |-> IF r = 1 THEN "price" ELSE "idle"]
  /\ loc = [r \in Reqs |-> NoLoc]
  /\ resp = [r \in Reqs |-> NoResp]
  /\ trace = [r \in Reqs |-> IF r = 1 THEN [k \in 1..Len(req[1].items) |-> "verifyTrue"]
                                ELSE <<>>]

NextBatchPrice == PriceAndCheck(1)

SpecBatchPrice == InitBatchPrice /\ [][NextBatchPrice]_vars

(***************************************************************************)
(* RebalanceService.  A tick of the interval timer runs checkAndRebalance; *)
(* each await of it and of executeSwap is a step, so that ticks interleave *)
(* at the awaits.  The wallet's CRO is counted in 1/1000 CRO, its USDC in  *)
(* base units, CRO prices in 1e-3 USD.  A tick uses a request slot: pc,    *)
(* loc and trace hold its position, its local variables and what it did.   *)
(***************************************************************************)
MaxUint256 == 2000000000

NoTick == [croBalance |-> 0, usdcBalance |-> 0, swapAmount |-> 0, minOutput |-> 0,
           expectedCro |-> 0]

\* the prices the router's getAmountsOut answers with; 0: the call throws
RouterPrices == {0, 100, 150}

Running(t) == pc[t] \notin {"idle", "done"}

TickDone(t, events) ==
  /\ pc' = [pc EXCEPT ![t] = "done"]
  /\ loc' = [loc EXCEPT ![t] = NoTick]
  /\ Log(t, events)

TickGoto(t, label, newloc, events) ==
  /\ pc' = [pc EXCEPT ![t] = label]
  /\ loc' = [loc EXCEPT ![t] = newloc]
  /\ Log(t, events)

\* checkAndRebalance up to its first await: skipped when isRebalancing is set.
\* The trace notes whether another tick was still running when this one fired
CheckAndRebalance(t) ==
  /\ t \in slots
  /\ pc[t] = "idle"
  /\ LET fired == IF \E u \in slots \ {t} : Running(u)
                  THEN <<"tick", "overlapping">> ELSE <<"tick">>
     IN  IF isRebalancing
         THEN TickDone(t, fired \o <<"skipped">>)
         ELSE TickGoto(t, "getBalances", NoTick, fired)
  /\ UNCHANGED <<chainVars, envVars, relayers, req, resp>>

\* await walletService.getBalances(), then the two checks; getBalances throws
\* when the CRO balance cannot be read and takes the USDC balance as 0 when
\* balanceOf fails
ReadBalances(t) ==
  /\ pc[t] = "getBalances"
  /\ \E rpc \in {"ok", "error", "usdcError"} :
       LET croBalance == wallet.cro
           usdcBalance == IF rpc = "usdcError" THEN 0 ELSE wallet.usdc
       IN  IF rpc = "error"
           THEN TickDone(t, <<"balanceReadFailed">>)
           ELSE IF croBalance >= MIN_CRO_BALANCE * 1000 \/ usdcBalance < 1000000
           THEN TickDone(t, <<"balanceRead">>)
           ELSE TickGoto(t, "getCroPrice",
                         [NoTick EXCEPT !.croBalance = croBalance,
                                        !.usdcBalance = usdcBalance],
                         <<"balanceRead">>)
  /\ UNCHANGED <<chainVars, envVars, relayers, req, resp>>

\* usdcToSwap = min(croNeeded * croPrice * 1.1, usdcBalance * 0.5), in base units
usdcToSwap(croBalance, usdcBalance, croPrice) ==
  Min(((TARGET_CRO_BALANCE * 1000 - croBalance) * croPrice * 11) \div 10,
      usdcBalance \div 2)

\* await this.getCroPrice() (0.10 when the router cannot be asked), then
\* executeSwap up to its first await: it returns at once when isRebalancing
\* is set, else it sets the flag and asks for the allowance
ReadCroPrice(t) ==
  /\ pc[t] = "getCroPrice"
  /\ \E routerPrice \in RouterPrices :
       LET croPrice == IF routerPrice = 0 THEN FALLBACK_CRO_PRICE_MILLI ELSE routerPrice
           amount == usdcToSwap(loc[t].croBalance, loc[t].usdcBalance, croPrice)
       IN  IF isRebalancing
           THEN /\ TickDone(t, <<"priceRead", "swapSkipped">>)
                /\ UNCHANGED isRebalancing
           ELSE /\ isRebalancing' = TRUE
                /\ TickGoto(t, "allowance", [loc[t] EXCEPT !.swapAmount = amount],
                            <<"priceRead", "executeSwap">>)
  /\ UNCHANGED <<chainVars, env, now, gasPrice, croUsdPrice, slots, hits, serviceVars, wallet,
                 relayers, req, resp>>

\* executeSwap without its finally block
SwapFailed_NoFinally(t, events) ==
  /\ TickDone(t, events \o <<"swapFailed">>)
  /\ UNCHANGED isRebalancing

\* the catch and finally of executeSwap
SwapFailed(t, events) ==
  /\ TickDone(t, events \o <<"swapFailed">>)
  /\ isRebalancing' = FALSE

\* await usdcContract.allowance(...)
SwapAllowance(t) ==
  /\ pc[t] = "allowance"
  /\ \E rpc \in RpcOutcomes :
       IF rpc = "error"
       THEN SwapFailed(t, <<"allowanceError">>)
       ELSE /\ TickGoto(t, IF wallet.allowance < loc[t].swapAmount
                           THEN "approve" ELSE "getAmountsOut",
                        loc[t], <<"allowanceRead">>)
            /\ UNCHANGED isRebalancing
  /\ UNCHANGED <<chainVars, env, now, gasPrice, croUsdPrice, slots, hits, serviceVars, wallet,
                 relayers, req, resp>>

\* await usdcContract.approve(router, MaxUint256) and await approveTx.wait()
SwapApprove(t) ==
  /\ pc[t] = "approve"
  /\ \E rpc \in RpcOutcomes :
       IF rpc = "error"
       THEN /\ SwapFailed(t, <<"approveError">>)
            /\ UNCHANGED wallet
       ELSE /\ wallet' = [wallet EXCEPT !.allowance = MaxUint256]
            /\ TickGoto(t, "getAmountsOut", loc[t], <<"approved">>)
            /\ UNCHANGED isRebalancing
  /\ UNCHANGED <<chainVars, env, now, gasPrice, croUsdPrice, slots, hits, serviceVars,
                 relayers, req, resp>>

\* await routerContract.getAmountsOut(swapAmount, path); minOutput leaves
\* SLIPPAGE_PERCENT of the expected CRO
SwapQuote(t) ==
  /\ pc[t] = "getAmountsOut"
  /\ \E routerPrice \in RouterPrices :
       IF routerPrice = 0
       THEN SwapFailed(t, <<"quoteError">>)
       ELSE LET expectedCro == loc[t].swapAmount \div routerPrice
            IN  /\ TickGoto(t, "swap",
                            [loc[t] EXCEPT
                               !.expectedCro = expectedCro,
                               !.minOutput = (expectedCro * (100 - SLIPPAGE_PERCENT)) \div 100],
                            <<"quoted">>)
                /\ UNCHANGED isRebalancing
  /\ UNCHANGED <<chainVars, env, now, gasPrice, croUsdPrice, slots, hits, serviceVars, wallet,
                 relayers, req, resp>>

\* await routerContract.swapExactTokensForETH(...): the transaction is sent,
\* unless the node cannot be reached or the swap would revert (the wallet
\* has less USDC than swapAmount)
SwapSend(t) ==
  /\ pc[t] = "swap"
  /\ \E rpc \in RpcOutcomes :
       IF rpc = "error" \/ wallet.usdc < loc[t].swapAmount
       THEN SwapFailed(t, <<"swapError">>)
       ELSE /\ TickGoto(t, "swapWait", loc[t], <<"swapSent">>)
            /\ UNCHANGED isRebalancing
  /\ UNCHANGED <<chainVars, env, now, gasPrice, croUsdPrice, slots, hits, serviceVars, wallet,
                 relayers, req, resp>>

\* await swapTx.wait(): the swap is mined; it pays between minOutput and the
\* expected CRO, or reverts, and then wait() throws
SwapMine(t) ==
  /\ pc[t] = "swapWait"
  /\ \E out \in {0, loc[t].minOutput, loc[t].expectedCro} :
       IF out = 0 \/ wallet.usdc < loc[t].swapAmount
       THEN /\ SwapFailed(t, <<"swapReverted">>)
            /\ UNCHANGED wallet
       ELSE /\ wallet' = [wallet EXCEPT !.usdc = @ - loc[t].swapAmount, !.cro = @ + out]
            /\ TickGoto(t, "newBalances", loc[t], <<"swapMined">>)
            /\ UNCHANGED isRebalancing
  /\ UNCHANGED <<chainVars, env, now, gasPrice, croUsdPrice, slots, hits, serviceVars,
                 relayers, req, resp>>

\* await walletService.getBalances() for the log, then finally
SwapDone(t) ==
  /\ pc[t] = "newBalances"
  /\ \E rpc \in RpcOutcomes :
       /\ TickDone(t, IF rpc = "error" THEN <<"balanceReadFailed", "swapFailed">>
                      ELSE <<"balanceRead", "rebalanced">>)
       /\ isRebalancing' = FALSE
  /\ UNCHANGED <<chainVars, env, now, gasPrice, croUsdPrice, slots, hits, serviceVars, wallet,
                 relayers, req, resp>>

\* two ticks of the timer, over wallets with little or enough CRO, with or
\* without USDC to swap, with or without an allowance given before
InitRebalance ==
  /\ env = DefaultEnv
  /\ hits = NoHits
  /\ InitIdleServices
  /\ isRebalancing = FALSE
  /\ wallet \in {[cro |-> c, usdc |-> u, allowance |-> a] :
                   c \in {5000, 20000}, u \in {500000, 20000000}, a \in {0, MaxUint256}}
  /\ now = 1
  /\ gasPrice = 0
  /\ croUsdPrice = DEFAULT_CRO_USD_MILLI
  /\ slots = Reqs
  /\ InitChain
  /\ balances["0xp1"] = 400000
  /\ authStates = {}
  /\ relayers = InitialRelayers
  /\ pc = [t \in Reqs |-> "idle"]
  /\ req = [t \in Reqs |-> NoReq]
  /\ loc = [t \in Reqs |-> NoTick]
  /\ resp = [t \in Reqs |-> NoResp]
  /\ trace = [t \in Reqs |-> <<>>]

NextRebalance ==
  \E t \in Reqs :
    \/ CheckAndRebalance(t)
    \/ ReadBalances(t)
    \/ ReadCroPrice(t)
    \/ SwapAllowance(t)
    \/ SwapApprove(t)
    \/ SwapQuote(t)
    \/ SwapSend(t)
    \/ SwapMine(t)
    \/ SwapDone(t)

SpecRebalance == InitRebalance /\ [][NextRebalance]_vars

(***************************************************************************)
(* A quote and the payment made for it.  Request 1, a /meta/relay request  *)
(* without a payment header, is quoted.  The client then sends the same    *)
(* signed request and tier again as request 2, with an authorization for   *)
(* exactly the maxAmountRequired of the 402 answer.  In between the node's *)
(* gas price and the cached spot price may change and time may pass.       *)
(***************************************************************************)
QuoteItem == Item(0, "0xa1", MaxTime + 7, "0xok")

QuoteGasPrices == {10, 20}
QuoteSpots == {150, 1000}

QuoteBody(priority, header) ==
  [kind |-> "relay", items |-> <<QuoteItem>>, priority |-> priority, header |-> header]

InitQuote ==
  /\ env = DefaultEnv
  /\ InitServices
  /\ now = 1
  /\ gasPrice \in QuoteGasPrices
  /\ croUsdPrice \in QuoteSpots
  /\ slots = Reqs
  /\ fwdNonces = [a \in {"0xa1"} |-> 0]
  /\ authStates = {}
  /\ balances = [a \in {"0xp1", "0xf40b"} |-> IF a = "0xp1" THEN 400000 ELSE 0]
  /\ chainTxs = <<>>
  /\ relayers = InitialRelayers
  /\ \E p \in Priorities :
       req = [r \in Reqs |-> IF r = 1 THEN QuoteBody(p, NoHeader) ELSE NoReq]
  /\ pc = [r \in Reqs |-> IF r = 1 THEN "price" ELSE "idle"]
  /\ loc = [r \in Reqs |-> NoLoc]
  /\ resp = [r \in Reqs |-> NoResp]
  /\ trace = [r \in Reqs |-> IF r = 1 THEN <<"verifyTrue">> ELSE <<>>]

\* the client pays what the 402 answer asked for
PresentPayment ==
  /\ pc[1] = "done"
  /\ pc[2] = "idle"
  /\ resp[1].status = 402
  /\ resp[1].error = "Payment Required"
  /\ Arrive(2, QuoteBody(req[1].priority,
                         Header(FALSE, Envelope("0xf40b", resp[1].maxAmountRequired, 0,
                                                MaxTime + 7, "n1", "0xp1"))))

\* the node reports another gas price
GasPriceChange ==
  /\ \E g \in QuoteGasPrices \ {gasPrice} : gasPrice' = g
  /\ UNCHANGED <<env, now, croUsdPrice, slots, hits, rebalanceVars, serviceVars, chainVars,
                 relayers, pc, req, loc, resp, trace>>

\* PricingService.updateCroPrice: the price feed answers with another price
SpotChange ==
  /\ \E s \in QuoteSpots \ {croUsdPrice} : croUsdPrice' = s
  /\ UNCHANGED <<env, now, gasPrice, slots, hits, rebalanceVars, serviceVars, chainVars,
                 relayers, pc, req, loc, resp, trace>>

NextQuote ==
  \/ \E r \in Reqs :
       \/ VerifySignature(r)
       \/ PriceAndCheck(r)
  \/ PresentPayment
  \/ GasPriceChange
  \/ SpotChange
  \/ Tick

SpecQuote == InitQuote /\ [][NextQuote]_vars

(***************************************************************************)
(* The limiters on their own: one client sending request after request,    *)
(* each on /meta/relay, /meta/batch or GET /estimate, until the general    *)
(* limit of the window is passed; the window may end at any moment.  The   *)
(* bodies are an invalid one, a /meta/relay and a /meta/batch request      *)
(* without a payment header, and /estimate queries (invalid, for one tier, *)
(* for every tier).                                                        *)
(***************************************************************************)
LimitItem == Item(0, "0xa1", MaxTime + 7, "0xok")

LimitBodies ==
  {InvalidBody,
   [kind |-> "relay", items |-> <<LimitItem>>, priority |-> "normal", header |-> NoHeader],
   [kind |-> "batch", items |-> <<LimitItem>>, priority |-> "normal", header |-> NoHeader],
   [kind |-> "estimate", items |-> <<>>, priority |-> "normal", header |-> NoHeader],
   [kind |-> "estimate", items |-> <<LimitItem>>, priority |-> "fast", header |-> NoHeader],
   [kind |-> "estimate", items |-> <<LimitItem>>, priority |-> "all", header |-> NoHeader]}

InitLimit ==
  /\ env = DefaultEnv
  /\ InitServices
  /\ now = 1
  /\ gasPrice = 0
  /\ croUsdPrice = DEFAULT_CRO_USD_MILLI
  /\ slots = {1}
  /\ InitChain
  /\ balances["0xp1"] = 400000
  /\ authStates = {}
  /\ InitServer

LimitArrive(r) ==
  /\ hits.general < GENERAL_MAX + MaxOver
  /\ \E body \in LimitBodies : Arrive(r, body)

NextLimit ==
  \/ LimitArrive(1)
  \/ VerifySignature(1)
  \/ PriceAndCheck(1)
  \/ Estimate(1)
  \/ Finish(1)
  \/ WindowReset

SpecLimit == InitLimit /\ [][NextLimit]_vars

(***************************************************************************)
(* The relayer pool on its own: a pool of one to MaxPool wallets, on which *)
(* getRelayerRoundRobin is called again and again while jobs take and      *)
(* give back relayers.  trace[1] holds the addresses the calls returned.   *)
(***************************************************************************)
PoolAddresses == <<"0xr1", "0xr2", "0xr3", "0xr4", "0xr5">>

Pools ==
  {[i \in 1..n |->
      [address |-> PoolAddresses[i], pendingTxCount |-> 0, lastUsed |-> 0, nonce |-> 0]] :
     n \in 1..MaxPool}

poolVars == <<env, now, gasPrice, croUsdPrice, slots, hits, rebalanceVars, chainVars,
              currentNonce, pendingNonces, lock, resolved, txCount, faucetCooldowns,
              pc, req, loc, resp>>

InitPool ==
  /\ env = DefaultEnv
  /\ InitServices
  /\ now = 1
  /\ gasPrice = 0
  /\ croUsdPrice = DEFAULT_CRO_USD_MILLI
  /\ slots = {}
  /\ InitChain
  /\ balances["0xp1"] = 400000
  /\ authStates = {}
  /\ relayers \in Pools
  /\ pc = [r \in Reqs |-> "idle"]
  /\ req = [r \in Reqs |-> NoReq]
  /\ loc = [r \in Reqs |-> NoLoc]
  /\ resp = [r \in Reqs |-> NoResp]
  /\ trace = [r \in Reqs |-> <<>>]

\* getRelayerRoundRobin(): relayers[currentIndex], and the index moves on
GetRelayerRoundRobin ==
  /\ Len(trace[1]) < MaxCalls
  /\ Len(relayers) # 0
  /\ trace' = [trace EXCEPT ![1] = Append(@, relayers[currentIndex + 1].address)]
  /\ currentIndex' = NextIndex(currentIndex, Len(relayers))
  /\ UNCHANGED <<poolVars, relayers>>

\* a job takes relayer i: getAndIncrementNonce
TakeRelayer(i) ==
  /\ i \in 1..Len(relayers)
  /\ relayers[i].nonce < 2
  /\ relayers' = getAndIncrementNonce(relayers, i, now)
  /\ UNCHANGED <<poolVars, currentIndex, trace>>

\* a job gives relayer i back: markComplete
GiveBackRelayer(i) ==
  /\ i \in 1..Len(relayers)
  /\ relayers[i].pendingTxCount > 0
  /\ relayers' = markComplete(relayers, i)
  /\ UNCHANGED <<poolVars, currentIndex, trace>>

NextPool ==
  \/ GetRelayerRoundRobin
  \/ \E i \in 1..MaxPool : TakeRelayer(i) \/ GiveBackRelayer(i)

SpecPool == InitPool /\ [][NextPool]_vars

(***************************************************************************)
(* Request validation on its own: one /meta/relay request whose            *)
(* ForwardRequest is drawn from well-formed and malformed fields and from  *)
(* deadlines before, at and after the clock, without a payment header or   *)
(* with a valid envelope; it runs through the whole pipeline.              *)
(***************************************************************************)
ValidationItems ==
  {[request   |-> [from |-> f, to |-> t, value |-> v, gasK |-> 100, nonce |-> 0,
                   deadline |-> d, data |-> x],
    signature |-> [signedBy |-> "0xa1"]] :
     f \in {"0xa1", "0x123", "invalid"}, t \in {"0xtarget", "0x123"},
     v \in {0, NotANumber}, d \in {1, 2, MaxTime + 7},
     x \in {"0xok", "0xzz", "not-hex"}}

ValidationBodies ==
  {[kind |-> "relay", items |-> <<it>>, priority |-> "normal", header |-> h] :
     it \in ValidationItems,
     h \in {NoHeader,
            Header(FALSE, Envelope("0xf40b",
                                   calculatePrice(100, "normal", DEFAULT_GAS_PRICE_H,
                                                  DEFAULT_CRO_USD_MILLI).finalPriceRaw,
                                   0, MaxTime + 7, "n1", "0xp1"))}}

InitValidate ==
  /\ env = DefaultEnv
  /\ InitServices
  /\ now = 1
  /\ gasPrice = 0
  /\ croUsdPrice = DEFAULT_CRO_USD_MILLI
  /\ slots = {1}
  /\ InitChain
  /\ balances["0xp1"] = 400000
  /\ authStates = {}
  /\ InitServer

ValidateArrive(r) ==
  /\ r \in slots
  /\ pc[r] = "idle"
  /\ \E body \in ValidationBodies : Arrive(r, body)

NextValidate ==
  \/ ValidateArrive(1)
  \/ VerifySignature(1)
  \/ PriceAndCheck(1)
  \/ AuthStateRead(1)
  \/ BalanceRead(1)
  \/ SettleSend(1)
  \/ SettleMine(1)
  \/ ExecEstimate(1)
  \/ ExecSend(1)
  \/ ExecMine(1)
  \/ Tick

SpecValidate == InitValidate /\ [][NextValidate]_vars

(***************************************************************************)
(* NonceService.  Callers (the request slots) call getNextNonce, each      *)
(* await of which is a step; a caller that holds a nonce sends its         *)
(* transaction and confirms the nonce, or gives it back with releaseNonce. *)
(* A promise of the lock is named by a number, 0 being the resolved one    *)
(* the field starts with; loc holds the promise a caller awaits, the one   *)
(* it made, what initialize() read, and the nonce it holds; trace holds    *)
(* what its calls returned: a nonce, or NoNonce for a call that threw.     *)
(***************************************************************************)
NoCall == [awaited |-> 0, mine |-> 0, read |-> 0, held |-> NoNonce]

nonceFrame == <<env, now, gasPrice, croUsdPrice, slots, hits, rebalanceVars, chainVars,
                relayers, currentIndex, faucetCooldowns, req, resp>>

\* a promise no one has made yet
NewPromise ==
  LET made == resolved \cup {lock} \cup {loc[c].mine : c \in Reqs}
  IN  1 + (CHOOSE x \in made : \A y \in made : y <= x)

\* while (this.pendingNonces.has(nonce)) nonce++
RECURSIVE SkipPending(_, _)
SkipPending(nonce, pending) ==
  IF nonce \in pending THEN SkipPending(nonce + 1, pending) ELSE nonce

\* getNextNonce from "let nonce = this.currentNonce" to its return, finally
\* included: no await in between
Allocate(c, from, mine) ==
  LET nonce == SkipPending(from, pendingNonces)
  IN  /\ pendingNonces' = pendingNonces \cup {nonce}
      /\ currentNonce' = nonce + 1
      /\ resolved' = resolved \cup {mine}
      /\ pc' = [pc EXCEPT ![c] = "holding"]
      /\ loc' = [loc EXCEPT ![c] = [NoCall EXCEPT !.held = nonce]]
      /\ trace' = [trace EXCEPT ![c] = Append(@, nonce)]

\* getNextNonce() is called: it runs up to "await this.lock"
GetNextNonce(c) ==
  /\ c \in slots
  /\ pc[c] = "idle"
  /\ Len(trace[c]) < MaxAlloc
  /\ pc' = [pc EXCEPT ![c] = "awaitLock"]
  /\ loc' = [loc EXCEPT ![c] = [NoCall EXCEPT !.awaited = lock]]
  /\ UNCHANGED <<nonceFrame, currentNonce, pendingNonces, lock, resolved, txCount, trace>>

\* the awaited promise is resolved and the call goes on: it puts its own
\* promise in the lock, then allocates at once, or awaits initialize()
AcquireLock(c) ==
  /\ pc[c] = "awaitLock"
  /\ loc[c].awaited \in resolved
  /\ lock' = NewPromise
  /\ IF currentNonce = NoNonce
     THEN /\ pc' = [pc EXCEPT ![c] = "initialize"]
          /\ loc' = [loc EXCEPT ![c] = [NoCall EXCEPT !.mine = NewPromise]]
          /\ UNCHANGED <<currentNonce, pendingNonces, resolved, trace>>
     ELSE Allocate(c, currentNonce, NewPromise)
  /\ UNCHANGED <<nonceFrame, txCount>>

\* initialize(): the node answers getTransactionCount(address, "pending"),
\* or the call fails and getNextNonce throws through its finally
InitializeRead(c) ==
  /\ pc[c] = "initialize"
  /\ \E rpc \in RpcOutcomes :
       IF rpc = "error"
       THEN /\ resolved' = resolved \cup {loc[c].mine}
            /\ pc' = [pc EXCEPT ![c] = "idle"]
            /\ loc' = [loc EXCEPT ![c] = NoCall]
            /\ trace' = [trace EXCEPT ![c] = Append(@, NoNonce)]
       ELSE /\ pc' = [pc EXCEPT ![c] = "initialized"]
            /\ loc' = [loc EXCEPT ![c].read = txCount]
            /\ UNCHANGED <<resolved, trace>>
  /\ UNCHANGED <<nonceFrame, currentNonce, pendingNonces, lock, txCount>>

\* the answer arrives: this.currentNonce = (what was read), and the call
\* goes on to allocate
InitializeResume(c) ==
  /\ pc[c] = "initialized"
  /\ Allocate(c, loc[c].read, loc[c].mine)
  /\ UNCHANGED <<nonceFrame, lock, txCount>>

\* the caller sends its transaction with the nonce it holds, which the chain
\* counts when it is the next one of the wallet, and calls confirmNonce
ConfirmNonce(c) ==
  /\ pc[c] = "holding"
  /\ txCount' = IF loc[c].held = txCount THEN txCount + 1 ELSE txCount
  /\ pendingNonces' = pendingNonces \ {loc[c].held}
  /\ pc' = [pc EXCEPT ![c] = "idle"]
  /\ loc' = [loc EXCEPT ![c] = NoCall]
  /\ UNCHANGED <<nonceFrame, currentNonce, lock, resolved, trace>>

\* the caller gives the nonce back without having sent anything
ReleaseNonce(c) ==
  /\ pc[c] = "holding"
  /\ pendingNonces' = pendingNonces \ {loc[c].held}
  /\ pc' = [pc EXCEPT ![c] = "idle"]
  /\ loc' = [loc EXCEPT ![c] = NoCall]
  /\ UNCHANGED <<nonceFrame, currentNonce, lock, resolved, txCount, trace>>

InitNonce ==
  /\ env = DefaultEnv
  /\ InitServices
  /\ now = 1
  /\ gasPrice = 0
  /\ croUsdPrice = DEFAULT_CRO_USD_MILLI
  /\ slots = Reqs
  /\ InitChain
  /\ balances["0xp1"] = 400000
  /\ authStates = {}
  /\ relayers = InitialRelayers
  /\ pc = [c \in Reqs |-> "idle"]
  /\ req = [c \in Reqs |-> NoReq]
  /\ loc = [c \in Reqs |-> NoCall]
  /\ resp = [c \in Reqs |-> NoResp]
  /\ trace = [c \in Reqs |-> <<>>]

NextNonce ==
  \E c \in Reqs :
    \/ GetNextNonce(c)
    \/ AcquireLock(c)
    \/ InitializeRead(c)
    \/ InitializeResume(c)
    \/ ConfirmNonce(c)
    \/ ReleaseNonce(c)

SpecNonce == InitNonce /\ [][NextNonce]_vars

(***************************************************************************)
(* The faucet (api/faucet.controller): GET /faucet/:address mints 100      *)
(* TestUSDC to the address, once per cooldown.  Two requests are           *)
(* interleaved at every await of the handler, while seconds and minutes    *)
(* pass.                                                                   *)
(***************************************************************************)
isAddress(s) == s \in Addresses

FaucetAddresses == {"0xF40B", "0xf40b", "0xp1", "0x123"}

\* Date.now(), in milliseconds
DateNow == now * 1000

NoFaucet == [address |-> "", currentBalance |-> 0, pendingTx |-> 0]

FaucetFailed == Response(500, "Faucet failed", "")

MintTx(address) ==
  [kind |-> "mint", mined |-> FALSE, status |-> 0, to |-> address,
   amount |-> FAUCET_AMOUNT, minedAt |-> 0]

\* faucetCooldowns.get(normalizedAddress): undefined counts as 0
lastRequestOf(cooldowns, normalizedAddress) ==
  IF normalizedAddress \in DOMAIN cooldowns THEN cooldowns[normalizedAddress] ELSE 0

\* lastRequest && Date.now() - lastRequest < COOLDOWN_MS
InCooldown(lastRequest, dateNow) ==
  lastRequest # 0 /\ dateNow - lastRequest < COOLDOWN_MS

\* the handler up to its first await: the address check, the cooldown check
FaucetArrive(r) ==
  /\ r \in slots
  /\ pc[r] = "idle"
  /\ \E address \in FaucetAddresses :
       LET normalizedAddress == toLowerCase(address)
           lastRequest == lastRequestOf(faucetCooldowns, normalizedAddress)
       IN  /\ req' = [req EXCEPT ![r] = [kind |-> "faucet", address |-> address]]
           /\ IF ~isAddress(address)
              THEN /\ Respond(r, Response(400, "Invalid address", ""))
                   /\ Log(r, <<"invalidAddress">>)
              ELSE IF InCooldown(lastRequest, DateNow)
              THEN /\ Respond(r, Response(429, "Rate limited", ""))
                   /\ Log(r, <<"rateLimited">>)
              ELSE /\ Goto(r, "balanceOf", [NoFaucet EXCEPT !.address = address])
                   /\ Log(r, <<"cooldownPassed">>)
  /\ UNCHANGED <<chainVars, envVars, relayers>>

\* const currentBalance = await usdcContract.balanceOf(address)
FaucetBalanceOf(r) ==
  /\ pc[r] = "balanceOf"
  /\ \E rpc \in RpcOutcomes :
       IF rpc = "error"
       THEN /\ Respond(r, FaucetFailed)
            /\ Log(r, <<"balanceOfError">>)
       ELSE /\ Goto(r, "mint", [loc[r] EXCEPT
                                  !.currentBalance = balances[toLowerCase(loc[r].address)]])
            /\ Log(r, <<"balanceRead">>)
  /\ UNCHANGED <<chainVars, envVars, relayers, req>>

\* const tx = await usdcContract.mint(address, FAUCET_AMOUNT)
FaucetMint(r) ==
  /\ pc[r] = "mint"
  /\ \E rpc \in RpcOutcomes :
       IF rpc = "error"
       THEN /\ Respond(r, FaucetFailed)
            /\ Log(r, <<"mintError">>)
            /\ UNCHANGED chainTxs
       ELSE /\ chainTxs' = Append(chainTxs, MintTx(loc[r].address))
            /\ Goto(r, "mintWait", [loc[r] EXCEPT !.pendingTx = Len(chainTxs) + 1])
            /\ Log(r, <<"mintSent">>)
  /\ UNCHANGED <<fwdNonces, authStates, balances, envVars, relayers, req>>

\* const receipt = await tx.wait(), then faucetCooldowns.set(normalizedAddress,
\* Date.now()); wait() throws when the mint reverted
FaucetWait(r) ==
  /\ pc[r] = "mintWait"
  /\ \E ok \in BOOLEAN :
       LET h == loc[r].pendingTx
           normalizedAddress == toLowerCase(loc[r].address)
       IN  IF ok
           THEN /\ chainTxs' = [chainTxs EXCEPT ![h] =
                                  [@ EXCEPT !.mined = TRUE, !.status = 1, !.minedAt = now]]
                /\ balances' = [balances EXCEPT ![normalizedAddress] = @ + FAUCET_AMOUNT]
                /\ faucetCooldowns' =
                     [a \in DOMAIN faucetCooldowns \cup {normalizedAddress} |->
                        IF a = normalizedAddress THEN DateNow ELSE faucetCooldowns[a]]
                /\ Goto(r, "newBalance", loc[r])
                /\ Log(r, <<"minted">>)
           ELSE /\ chainTxs' = [chainTxs EXCEPT ![h] = [@ EXCEPT !.mined = TRUE]]
                /\ Respond(r, FaucetFailed)
                /\ Log(r, <<"mintReverted">>)
                /\ UNCHANGED <<balances, faucetCooldowns>>
  /\ UNCHANGED <<fwdNonces, authStates, env, now, gasPrice, croUsdPrice, slots, hits,
                 rebalanceVars, currentIndex, currentNonce, pendingNonces, lock, resolved,
                 txCount, relayers, req>>

\* const newBalance = await usdcContract.balanceOf(address), then the answer
FaucetNewBalance(r) ==
  /\ pc[r] = "newBalance"
  /\ \E rpc \in RpcOutcomes :
       IF rpc = "error"
       THEN /\ Respond(r, FaucetFailed)
            /\ Log(r, <<"newBalanceError">>)
       ELSE /\ Respond(r, [Response(200, "", "100 TestUSDC sent!") EXCEPT
                             !.success = TRUE, !.txHash = loc[r].pendingTx])
            /\ Log(r, <<"sent">>)
  /\ UNCHANGED <<chainVars, envVars, relayers, req>>

\* a cooldown's worth of time passes
CooldownPasses ==
  /\ now <= MaxTime
  /\ now' = now + COOLDOWN_MS \div 1000
  /\ UNCHANGED <<env, gasPrice, croUsdPrice, slots, hits, rebalanceVars, serviceVars, chainVars,
                 relayers, pc, req, loc, resp, trace>>

InitFaucet ==
  /\ env = DefaultEnv
  /\ InitServices
  /\ now = 1
  /\ gasPrice = 0
  /\ croUsdPrice = DEFAULT_CRO_USD_MILLI
  /\ slots = Reqs
  /\ InitChain
  /\ balances["0xp1"] = 400000
  /\ authStates = {}
  /\ relayers = InitialRelayers
  /\ pc = [r \in Reqs |-> "idle"]
  /\ req = [r \in Reqs |-> NoReq]
  /\ loc = [r \in Reqs |-> NoFaucet]
  /\ resp = [r \in Reqs |-> NoResp]
  /\ trace = [r \in Reqs |-> <<>>]

NextFaucet ==
  \/ \E r \in Reqs :
       \/ FaucetArrive(r)
       \/ FaucetBalanceOf(r)
       \/ FaucetMint(r)
       \/ FaucetWait(r)
       \/ FaucetNewBalance(r)
  \/ Tick
  \/ CooldownPasses

SpecFaucet == InitFaucet /\ [][NextFaucet]_vars

(***************************************************************************)
(* Vocabulary of the properties.                                           *)
(***************************************************************************)
Did(r, event) == \E k \in 1..Len(trace[r]) : trace[r][k] = event

\* every occurrence of `event` in the trace has an earlier `before`
Precedes(r, before, event) ==
  \A k \in 1..Len(trace[r]) :
    trace[r][k] = event => \E j \in 1..(k - 1) : trace[r][j] = before

Answered(r) == pc[r] = "done"

\* the price computed for a request, from the quote
PriceOf(body) ==
  LET quote(gasK) == calculatePrice(gasK, body.priority, getGasPrice(gasPrice), croUsdPrice)
  IN  IF body.kind = "relay"
      THEN quote(body.items[1].request.gasK).finalPriceRaw
      ELSE (quote(SumGas(body.items)).finalPriceRaw * 90) \div 100

\* the authorization a request's header carries
AuthOf(r) == req[r].header.text.payload.authorization

HasEnvelope(r) ==
  /\ req[r].header.kind = "string"
  /\ req[r].header.text.kind = "envelope"

SameAddress(a, b) == toLowerCase(a) = toLowerCase(b)

OffChainReasons ==
  {"Wrong recipient address", "Insufficient amount",
   "Authorization not yet valid", "Authorization expired"}

RejectedWith(r, reason) ==
  /\ Answered(r)
  /\ resp[r].status = 402
  /\ resp[r].error = "PAYMENT_INVALID"
  /\ resp[r].message = reason

ChainRead(r) ==
  \/ Did(r, "authRead") \/ Did(r, "authReadFailed")
  \/ Did(r, "balRead") \/ Did(r, "balReadFailed")

C2_PaidBefore200 ==
  \A r \in Reqs :
    (Answered(r) /\ resp[r].status = 200) =>
      /\ resp[r].paymentTxHash \in 1..Len(chainTxs)
      /\ LET tx == chainTxs[resp[r].paymentTxHash]
             auth == tx.call.authorization
         IN  /\ tx.kind = "transferWithAuthorization"
             /\ tx.mined
             /\ tx.status = 1
             /\ SameAddress(auth.to, RECEIVING_WALLET)
             /\ auth.value >= PriceOf(req[r])
             /\ authorizationState(authStates, auth.from, auth.nonce)
             /\ balances[toLowerCase(RECEIVING_WALLET)] >= auth.value

C2_Witness ==
  /\ Answered(1)
  /\ resp[1].status = 200
  /\ req[1].kind = "batch"
  /\ Len(req[1].items) = 2
  /\ resp[1].paymentTxHash = 1

(***************************************************************************)
(* C3.  When the settlement transaction cannot be sent, reverts, or comes  *)
(* back with a status other than 1, the request (relay or batch) is        *)
(* answered 402 PAYMENT_FAILED and forwarder.execute is never called.      *)
(***************************************************************************)
C3_SettleFailureIs402 ==
  \A r \in Reqs :
    (Did(r, "settleThrow") \/ Did(r, "receipt0")) =>
      /\ Answered(r)
      /\ resp[r].status = 402
      /\ resp[r].error = "PAYMENT_FAILED"
      /\ ~Did(r, "execute")
      /\ ~Did(r, "estimated")
      /\ ~Did(r, "execSent")
      /\ \A h \in 1..Len(chainTxs) : chainTxs[h].kind # "execute"

C3_Witness ==
  /\ Did(1, "receipt0")
  /\ req[1].kind = "batch"
  /\ Len(chainTxs) = 1
  /\ chainTxs[1].mined
  /\ chainTxs[1].status = 0

C5_BadSignatureIs400 ==
  \A r \in Reqs :
    (req[r].kind = "relay" /\ (Did(r, "verifyFalse") \/ Did(r, "verifyThrew"))) =>
      /\ Answered(r)
      /\ resp[r].status = 400
      /\ resp[r].error = "INVALID_SIGNATURE"
      /\ resp[r].maxAmountRequired = 0
      /\ trace[r] \in {<<"verifyFalse">>, <<"verifyThrew">>}
      /\ chainTxs = <<>>

C5_Witness ==
  /\ req[1].kind = "relay"
  /\ Did(1, "verifyFalse")
  /\ HasEnvelope(1)
  /\ req[1].items[1].signature.signedBy = "0xbad"
  /\ Answered(1)

(***************************************************************************)
(* C6.  A request with a good signature, the current nonce and a deadline  *)
(* in the future is never answered INVALID_SIGNATURE; INVALID_SIGNATURE is *)
(* answered only when the contract's verify view returned false.           *)
(***************************************************************************)
C6_RejectedOnlyByContract ==
  \A r \in Reqs :
    (req[r].kind = "relay" /\ Answered(r) /\ resp[r].error = "INVALID_SIGNATURE") =>
      /\ Did(r, "verifyFalse")
      /\ LET item == req[r].items[1]
         IN  ~(/\ item.signature.signedBy = toLowerCase(item.request.from)
               /\ item.request.nonce = fwdNonces[toLowerCase(item.request.from)]
               /\ item.request.deadline > MaxTime)

(***************************************************************************)
(* C7.  parsePaymentHeader returns null for every header that is not the   *)
(* base64 of a JSON payment envelope, and a request with such a header is  *)
(* answered 400 INVALID_PAYMENT without verifying the payment.             *)
(***************************************************************************)
C7_MalformedHeaderIs400 ==
  \A r \in Reqs :
    (/\ req[r].header.kind = "string"
     /\ req[r].header.noise \/ req[r].header.text.kind # "envelope") =>
      /\ parsePaymentHeader(req[r].header) = Null
      /\ (Answered(r) /\ Did(r, "parse")) =>
           /\ resp[r].status = 400
           /\ resp[r].error = "INVALID_PAYMENT"
           /\ ~Did(r, "verifyPayment")

(***************************************************************************)
(* C8.  payment.verify makes its checks in the order recipient, amount,    *)
(* validAfter, validBefore, authorizationState, balance, and answers with  *)
(* the reason of the first one that fails; once a check has failed no      *)
(* chain read is made.  The two chain checks fail by the value read.       *)
(***************************************************************************)
C8_FirstFailingCheck ==
  (HasEnvelope(1) /\ Did(1, "verifyPayment")) =>
    LET auth     == AuthOf(1)
        wrongTo  == ~SameAddress(auth.to, RECEIVING_WALLET)
        tooSmall == auth.value < PriceOf(req[1])
        tooEarly == now <= auth.validAfter
        tooLate  == now >= auth.validBefore
        offFail  == wrongTo \/ tooSmall \/ tooEarly \/ tooLate
        used     == Did(1, "authRead") /\ authorizationState(authStates, auth.from, auth.nonce)
        poor     == Did(1, "balRead") /\ balances[toLowerCase(auth.from)] < auth.value
    IN  /\ wrongTo => RejectedWith(1, "Wrong recipient address")
        /\ (~wrongTo /\ tooSmall) => RejectedWith(1, "Insufficient amount")
        /\ (~wrongTo /\ ~tooSmall /\ tooEarly) => RejectedWith(1, "Authorization not yet valid")
        /\ (~wrongTo /\ ~tooSmall /\ ~tooEarly /\ tooLate)
             => RejectedWith(1, "Authorization expired")
        /\ offFail => ~ChainRead(1)
        /\ used => /\ RejectedWith(1, "Authorization nonce already used")
                   /\ ~Did(1, "balRead")
                   /\ ~Did(1, "balReadFailed")
        /\ poor => RejectedWith(1, "Payer has insufficient USDC")
        /\ (Did(1, "balRead") \/ Did(1, "balReadFailed"))
             => (Did(1, "authRead") \/ Did(1, "authReadFailed"))
        /\ (~offFail /\ ~used /\ ~poor) => ~Answered(1)

C8_Witness ==
  /\ HasEnvelope(1)
  /\ ~SameAddress(AuthOf(1).to, RECEIVING_WALLET)
  /\ AuthOf(1).value < PriceOf(req[1])
  /\ now >= AuthOf(1).validBefore
  /\ authorizationState(authStates, AuthOf(1).from, AuthOf(1).nonce)
  /\ RejectedWith(1, "Wrong recipient address")

(***************************************************************************)
(* C9.  payment.verify answers valid only after authorizationState was     *)
(* read as false and the payer's balance was read as at least the          *)
(* envelope's value.                                                       *)
(***************************************************************************)
C9_ValidOnlyAfterBothReads ==
  pc[1] = "settleSend" =>
    /\ Did(1, "authRead")
    /\ Did(1, "balRead")
    /\ ~authorizationState(authStates, loc[1].payment.payload.authorization.from,
                           loc[1].payment.payload.authorization.nonce)
    /\ balances[toLowerCase(loc[1].payment.payload.authorization.from)]
         >= loc[1].payment.payload.authorization.value

(***************************************************************************)
(* C10.  The part of payment.verify made before any chain read accepts an  *)
(* envelope exactly when its recipient is the receiving wallet up to       *)
(* letter case, its value is at least the expected amount, and             *)
(* validAfter < now < validBefore: one unit short is "Insufficient         *)
(* amount", now = validAfter is "not yet valid", now >= validBefore is     *)
(* "expired".                                                              *)
(***************************************************************************)
C10_OffChainAcceptance ==
  (HasEnvelope(1) /\ Did(1, "verifyPayment")) =>
    LET auth     == AuthOf(1)
        expected == PriceOf(req[1])
        toOk     == SameAddress(auth.to, RECEIVING_WALLET)
        refused  == Answered(1) /\ resp[1].message \in OffChainReasons
    IN  /\ ~refused <=> (/\ toOk
                         /\ auth.value >= expected
                         /\ auth.validAfter < now
                         /\ now < auth.validBefore)
        /\ refused => (resp[1].status = 402 /\ resp[1].error = "PAYMENT_INVALID")
        /\ (toOk /\ auth.value = expected - 1) => RejectedWith(1, "Insufficient amount")
        /\ (toOk /\ auth.value >= expected /\ now = auth.validAfter)
             => RejectedWith(1, "Authorization not yet valid")
        /\ (toOk /\ auth.value >= expected /\ now > auth.validAfter /\ now >= auth.validBefore)
             => RejectedWith(1, "Authorization expired")

C10_Witness ==
  /\ HasEnvelope(1)
  /\ Did(1, "verifyPayment")
  /\ AuthOf(1).to # RECEIVING_WALLET
  /\ AuthOf(1).value = PriceOf(req[1]) + 1
  /\ AuthOf(1).validAfter = now - 1
  /\ AuthOf(1).validBefore = now + 1
  /\ pc[1] = "authRead"

(***************************************************************************)
(* Vocabulary of the properties on the execution step.                     *)
(***************************************************************************)
InFlight(r) == pc[r] \in {"execEstimate", "execSend", "execWait"}

\* the settlement transactions that went through
Settlements ==
  {h \in 1..Len(chainTxs) :
     /\ chainTxs[h].kind = "transferWithAuthorization"
     /\ chainTxs[h].mined
     /\ chainTxs[h].status = 1}

\* the forwarder transactions that ran
Executions ==
  {h \in 1..Len(chainTxs) :
     /\ chainTxs[h].kind = "execute"
     /\ chainTxs[h].mined
     /\ chainTxs[h].status = 1}

\* a relay request whose payment settled and whose forwarder.execute threw
ExecFailedAfterPayment(r) ==
  /\ req[r].kind = "relay"
  /\ Answered(r)
  /\ Did(r, "receipt1")
  /\ Did(r, "execThrow")

RECURSIVE SumPending(_)
SumPending(pool) ==
  IF pool = <<>> THEN 0 ELSE Head(pool).pendingTxCount + SumPending(Tail(pool))

(***************************************************************************)
(* C11.  When forwarder.execute fails in /meta/relay after the payment has *)
(* settled, the payment stays settled and the response carries the         *)
(* paymentTxHash together with the execution error.                        *)
(***************************************************************************)
C11_ErrorCarriesPaymentHash ==
  \A r \in Reqs :
    ExecFailedAfterPayment(r) =>
      /\ resp[r].status >= 400
      /\ resp[r].error # ""
      /\ resp[r].paymentTxHash \in Settlements
      /\ chainTxs[resp[r].paymentTxHash].call = req[r].header.text.payload

C15_InnerRevertIs200 ==
  \A r \in Reqs :
    req[r].kind = "relay" =>
      /\ (Answered(r) /\ resp[r].status = 200) =>
           /\ resp[r].txHash \in Executions
           /\ resp[r].paymentTxHash \in Settlements
           /\ LET event == ExecutedEvent(chainTxs[resp[r].txHash].call.request)
              IN  /\ chainTxs[resp[r].txHash].call = req[r].items[1]
                  /\ resp[r].success = event.success
                  /\ resp[r].result = event.result
      /\ (Did(r, "execMined1") /\ ~innerCallSuccess(req[r].items[1].request)) =>
           /\ Answered(r)
           /\ resp[r].status = 200
           /\ resp[r].success = FALSE
           /\ resp[r].result = "0xrevertdata"

C15_Witness ==
  /\ req[1].kind = "relay"
  /\ req[1].items[1].request.data = "0xrevert"
  /\ Answered(1)
  /\ resp[1].status = 200
  /\ resp[1].success = FALSE
  /\ resp[1].txHash = 2

(***************************************************************************)
(* C16.  The sum of pendingTxCount over the relayers equals the number of  *)
(* forwarder.execute jobs that hold a relayer and have not completed.      *)
(***************************************************************************)
C16_PendingCountsInFlight ==
  SumPending(relayers) = Cardinality({r \in Reqs : InFlight(r)})

(***************************************************************************)
(* C19.  When sending the forwarder transaction fails with a chain error   *)
(* (nonce too low, underpriced), the nonce of the wallet used is re-read   *)
(* from the chain once, the send is not repeated, and the client gets a    *)
(* 5xx answer.                                                             *)
(***************************************************************************)
C19_ResyncOnSendError ==
  \A r \in Reqs :
    (req[r].kind = "relay" /\ Did(r, "sendError")) =>
      /\ Answered(r)
      /\ resp[r].status >= 500
      /\ ~Did(r, "execSent")
      /\ Cardinality({k \in 1..Len(trace[r]) : trace[r][k] = "syncNonce"}) = 1

(***************************************************************************)
(* Vocabulary of the properties on concurrent requests.                    *)
(***************************************************************************)
\* a call to the node failed while the request was handled
NodeFailed(r) ==
  \/ Did(r, "verifyThrew") \/ Did(r, "authReadFailed") \/ Did(r, "balReadFailed")
  \/ Did(r, "settleError") \/ Did(r, "estimateError") \/ Did(r, "sendError")

\* the jobs in flight that hold relayer i
JobsOn(i) == Cardinality({q \in Reqs : InFlight(q) /\ loc[q].relayer = i})

(***************************************************************************)
(* C13.  Of two concurrent /meta/relay requests with the same signed       *)
(* ForwardRequest, each with its own valid payment, one succeeds and the   *)
(* other is answered 400 INVALID_SIGNATURE, whatever the interleaving.     *)
(***************************************************************************)
C13_SecondIsInvalidSignature ==
  (/\ \A r \in Reqs : Answered(r) /\ ~NodeFailed(r)
   /\ req[1].items = req[2].items
   /\ AuthOf(1).nonce # AuthOf(2).nonce)
  => \E a, b \in Reqs :
       /\ a # b
       /\ resp[a].status = 200
       /\ resp[a].success
       /\ resp[b].status = 400
       /\ resp[b].error = "INVALID_SIGNATURE"

(***************************************************************************)
(* C14.  Each forwarder execute that runs raises getNonce(from) by exactly *)
(* 1: the nonce counts the executions that ran, each ran at the nonce it   *)
(* was signed for, and the inner call of one signed ForwardRequest is made *)
(* at most once, whatever the interleaving of the requests carrying it.    *)
(***************************************************************************)
C14_ExecutedAtMostOnce ==
  /\ fwdNonces["0xa1"] = Cardinality(Executions)
  /\ \A h \in Executions : chainTxs[h].call.request.nonce < fwdNonces["0xa1"]
  /\ \A h1, h2 \in Executions :
       chainTxs[h1].call = chainTxs[h2].call => h1 = h2
  /\ \A h1, h2 \in Executions :
       chainTxs[h1].call.request.nonce = chainTxs[h2].call.request.nonce => h1 = h2

C14_Witness ==
  \E h1, h2 \in 1..Len(chainTxs) :
    /\ chainTxs[h1].kind = "execute"
    /\ chainTxs[h2].kind = "execute"
    /\ chainTxs[h1].call = chainTxs[h2].call
    /\ chainTxs[h1].mined /\ chainTxs[h1].status = 1
    /\ chainTxs[h2].mined /\ chainTxs[h2].status = 0
    /\ fwdNonces["0xa1"] = 1

(***************************************************************************)
(* C17.  No two forwarder.execute jobs in flight hold the same relayer.    *)
(***************************************************************************)
C17_NoSharedRelayer ==
  \A r1, r2 \in Reqs :
    (r1 # r2 /\ InFlight(r1) /\ InFlight(r2)) => loc[r1].relayer # loc[r2].relayer

(***************************************************************************)
(* C18.  The relayer a new job gets has the least pendingTxCount of the    *)
(* pool, among those the earliest lastUsed, and no relayer has fewer jobs  *)
(* in flight than it.                                                      *)
(***************************************************************************)
C18_LeastBusy ==
  [][\A r \in Reqs :
       (pc[r] = "settleWait" /\ pc'[r] = "execEstimate") =>
         LET i == loc'[r].relayer
         IN  \A j \in 1..Len(relayers) :
               /\ relayers[i].pendingTxCount <= relayers[j].pendingTxCount
               /\ relayers[i].pendingTxCount = relayers[j].pendingTxCount
                    => relayers[i].lastUsed <= relayers[j].lastUsed
               /\ JobsOn(i) <= JobsOn(j)]_vars

(***************************************************************************)
(* Vocabulary of the properties on quotes.                                 *)
(***************************************************************************)
Rank(priority) == CASE priority = "slow" -> 1 [] priority = "normal" -> 2 [] priority = "fast" -> 3

\* the quote of the current node gas price and spot price
QuoteNow(gasK, priority) ==
  calculatePrice(gasK, priority, getGasPrice(gasPrice), croUsdPrice).finalPriceRaw

Quoted(r) == Answered(r) /\ resp[r].status = 402 /\ resp[r].error = "Payment Required"

(***************************************************************************)
(* C20.  For one gas estimate, node gas price and spot price, the quotes   *)
(* satisfy finalPriceRaw(fast) >= finalPriceRaw(normal) >=                 *)
(* finalPriceRaw(slow), the floor and the cap included.                    *)
(***************************************************************************)
C20_TierMonotone ==
  /\ (Quoted(1) /\ Quoted(2) /\ Rank(req[1].priority) >= Rank(req[2].priority))
       => resp[1].maxAmountRequired >= resp[2].maxAmountRequired
  /\ \A r \in Reqs :
       Quoted(r) =>
         /\ req[r].priority = "fast" =>
              resp[r].maxAmountRequired >= QuoteNow(req[r].items[1].request.gasK, "normal")
         /\ req[r].priority = "normal" =>
              resp[r].maxAmountRequired >= QuoteNow(req[r].items[1].request.gasK, "slow")
         /\ req[r].priority = "slow" =>
              resp[r].maxAmountRequired <= QuoteNow(req[r].items[1].request.gasK, "normal")

C20_Witness ==
  /\ Quoted(1)
  /\ Quoted(2)
  /\ req[1].priority = "fast"
  /\ req[2].priority = "slow"
  /\ resp[1].maxAmountRequired = MAX_PRICE_MICRO
  /\ resp[2].maxAmountRequired < MAX_PRICE_MICRO
  /\ resp[2].maxAmountRequired > MinPriceMicro("slow")

(***************************************************************************)
(* Vocabulary of the pricing claims.                                       *)
(***************************************************************************)
\* MIN_PRICE_USDC x markupMultiplier of the tier, at least 0.005 USD
TierFloor(priority) ==
  LET scaled == CASE priority = "slow"   -> env.MIN_PRICE_USDC \div 2
                  [] priority = "normal" -> env.MIN_PRICE_USDC
                  [] priority = "fast"   -> 2 * env.MIN_PRICE_USDC
  IN  IF scaled > 5000 THEN scaled ELSE 5000

(***************************************************************************)
(* C21 as stated.  Under every accepted configuration a quote lies between *)
(* max(MIN_PRICE_USDC x markupMultiplier, 0.005 USD) and 10 USD.           *)
(***************************************************************************)
C21_ClampedBothWays ==
  \A r \in Reqs :
    Quoted(r) =>
      /\ resp[r].maxAmountRequired >= TierFloor(req[r].priority)
      /\ resp[r].maxAmountRequired <= 10000000

(***************************************************************************)
(* C21.  Under every accepted configuration a quote is at most 10 USD and  *)
(* at least the smaller of 10 USD and                                      *)
(* max(MIN_PRICE_USDC x markupMultiplier, 0.005 USD): the cap is applied   *)
(* after the floor and wins over a floor that lies above it.               *)
(***************************************************************************)
C21_CapWinsOverFloor ==
  \A r \in Reqs :
    Quoted(r) =>
      /\ resp[r].maxAmountRequired <= 10000000
      /\ TierFloor(req[r].priority) <= 10000000
           => resp[r].maxAmountRequired >= TierFloor(req[r].priority)
      /\ TierFloor(req[r].priority) > 10000000
           => resp[r].maxAmountRequired = 10000000

\* a minimum price of 6 USD: the slow quote rests on its floor of 3 USD, the
\* fast quote on the cap, below its floor of 12 USD
C21_Witness ==
  /\ env.MIN_PRICE_USDC = 6000000
  /\ Quoted(1)
  /\ req[1].priority = "fast"
  /\ resp[1].maxAmountRequired = 10000000
  /\ Quoted(2)
  /\ req[2].priority = "slow"
  /\ resp[2].maxAmountRequired = 3000000

\* the finalPriceRaw of one quote for the summed gas of a batch at its tier
SingleQuote(r) ==
  calculatePrice(SumGas(req[r].items), req[r].priority,
                 getGasPrice(gasPrice), croUsdPrice).finalPriceRaw

IsBatch(r) == req[r].kind = "batch"

(***************************************************************************)
(* C22.  For a batch, with P the finalPriceRaw of one quote for the summed *)
(* gas at the requested tier: the 402 answer demands floor(P x 90 / 100),  *)
(* and a payment for the receiving wallet is turned down as insufficient   *)
(* exactly when its value is below floor(P x 90 / 100).                    *)
(***************************************************************************)
C22_BatchAmountIsDiscountedQuote ==
  \A r \in Reqs :
    IsBatch(r) =>
      LET demanded == (SingleQuote(r) * 90) \div 100
      IN  /\ Quoted(r) => resp[r].maxAmountRequired = demanded
          /\ (HasEnvelope(r) /\ Did(r, "verifyPayment"))
               => /\ RejectedWith(r, "Insufficient amount") <=> AuthOf(r).value < demanded
                  /\ pc[r] = "authRead" <=> AuthOf(r).value >= demanded
                  /\ pc[r] = "authRead" => loc[r].expected = demanded

\* a payment of exactly floor(P x 90 / 100), where P x 90 / 100 is not whole,
\* has passed the amount check of a batch of several requests
C22_Witness ==
  /\ IsBatch(1)
  /\ Len(req[1].items) >= 2
  /\ HasEnvelope(1)
  /\ pc[1] = "authRead"
  /\ (SingleQuote(1) * 90) % 100 # 0
  /\ AuthOf(1).value = (SingleQuote(1) * 90) \div 100

\* a batch of 3 requests of 100000 gas each at the normal tier, 20 % markup and
\* the default minimum price, node gas price 5000 gwei, spot 0.15 USD
Scenario4(r) ==
  /\ IsBatch(r)
  /\ Len(req[r].items) = 3
  /\ \A k \in 1..3 : req[r].items[k].request.gasK = 100
  /\ req[r].priority = "normal"
  /\ env = [MARKUP_PERCENTAGE |-> 20, MIN_PRICE_USDC |-> 10000]
  /\ gasPrice = 50
  /\ croUsdPrice = 150

(***************************************************************************)
(* C23 as stated.  The batch of scenario 4 is quoted 54000 base units      *)
(* before the discount and is asked 48600 base units.                      *)
(***************************************************************************)
C23_Scenario4Is48600 ==
  \A r \in Reqs :
    (Scenario4(r) /\ Quoted(r))
      => /\ SingleQuote(r) = 54000
         /\ resp[r].maxAmountRequired = 48600

(***************************************************************************)
(* C23.  The batch of scenario 4 is quoted 270000 base units (0.27 USD:    *)
(* 300000 gas x 5000 gwei = 1.5 CRO, x 0.15 USD, x 1.2) before the         *)
(* discount and is asked 243000 base units.                                *)
(***************************************************************************)
C23_Scenario4Is243000 ==
  \A r \in Reqs :
    (Scenario4(r) /\ Quoted(r))
      => /\ SingleQuote(r) = 270000
         /\ resp[r].maxAmountRequired = 243000

C23_Witness ==
  /\ Scenario4(1)
  /\ Quoted(1)
  /\ trace[1] = <<"verifyTrue", "verifyTrue", "verifyTrue", "price">>

(***************************************************************************)
(* Vocabulary of the batch claims.                                         *)
(***************************************************************************)
Count(r, event) == Cardinality({k \in 1..Len(trace[r]) : trace[r][k] = event})

VerifyFailed(r) == Did(r, "verifyFalse") \/ Did(r, "verifyThrew")

\* the transactions of one kind sent so far, mined or not
Sent(kind) == {h \in 1..Len(chainTxs) : chainTxs[h].kind = kind}

(***************************************************************************)
(* C24.  /meta/batch verifies the requests one after the other before it   *)
(* does anything else.  When a request fails forwarder.verify the batch is *)
(* answered 400 INVALID_SIGNATURE with the (0-based) index of the first    *)
(* failing request: the ones before it verified, nothing was priced, no    *)
(* payment was sent and no request was executed.                           *)
(***************************************************************************)
C24_BatchRejectedAtFirstBadSignature ==
  \A r \in Reqs :
    IsBatch(r) =>
      /\ VerifyFailed(r) =>
           /\ Answered(r)
           /\ resp[r].status = 400
           /\ resp[r].error = "INVALID_SIGNATURE"
           /\ resp[r].index = Len(trace[r]) - 1
           /\ resp[r].index < Len(req[r].items)
           /\ \A k \in 1..resp[r].index :
                /\ trace[r][k] = "verifyTrue"
                /\ forwarderVerify(fwdNonces, req[r].items[k].request,
                                   req[r].items[k].signature, now)
           /\ Did(r, "verifyFalse") =>
                ~forwarderVerify(fwdNonces, req[r].items[resp[r].index + 1].request,
                                 req[r].items[resp[r].index + 1].signature, now)
           /\ chainTxs = <<>>
           /\ balances["0xf40b"] = 0
           /\ fwdNonces["0xa1"] = 0
      /\ (pc[r] \notin {"idle", "verify"} /\ ~VerifyFailed(r) /\ req[r].items # <<>>) =>
           \A k \in 1..Len(req[r].items) : trace[r][k] = "verifyTrue"

\* a batch whose first request verified and whose second did not: index 1
C24_Witness ==
  /\ IsBatch(1)
  /\ Answered(1)
  /\ trace[1] = <<"verifyTrue", "verifyFalse">>
  /\ resp[1].error = "INVALID_SIGNATURE"
  /\ resp[1].index = 1
  /\ Len(req[1].items) = 3

(***************************************************************************)
(* C25.  Once the payment of a batch settled, forwarder.execute is called  *)
(* for every request exactly once, in list order, one at a time; a request *)
(* that fails does not stop the later ones and what earlier ones did stays *)
(* done; results[i] reports request i.                                     *)
(***************************************************************************)
C25_BatchExecutesInOrder ==
  \A r \in Reqs :
    IsBatch(r) =>
      /\ InFlight(r) =>
           /\ Count(r, "execute") = loc[r].idx
           /\ Len(loc[r].results) = loc[r].idx - 1
      /\ Cardinality({h \in Sent("execute") : ~chainTxs[h].mined}) <= 1
      /\ Cardinality(Sent("execute")) <= Count(r, "execute")
      /\ fwdNonces["0xa1"] = Cardinality(Executions)
      /\ (Answered(r) /\ resp[r].status = 200) =>
           /\ Count(r, "execute") = Len(req[r].items)
           /\ Len(resp[r].results) = Len(req[r].items)
           /\ resp[r].success = (\A k \in 1..Len(resp[r].results) : resp[r].results[k].success)
           /\ \A k \in 1..Len(resp[r].results) :
                LET res == resp[r].results[k]
                IN  /\ res.success => res.txHash # 0
                    /\ res.txHash # 0 =>
                         /\ res.txHash \in Executions
                         /\ chainTxs[res.txHash].call = req[r].items[k]
                         /\ res.success = chainTxs[res.txHash].success
                    /\ \A j \in 1..(k - 1) :
                         (res.txHash # 0 /\ resp[r].results[j].txHash # 0)
                           => resp[r].results[j].txHash < res.txHash

\* the first request of a batch failed and a later one went through
C25_Witness ==
  /\ IsBatch(1)
  /\ Answered(1)
  /\ resp[1].status = 200
  /\ Len(resp[1].results) = 3
  /\ ~resp[1].results[1].success
  /\ resp[1].results[2].success
  /\ ~resp[1].results[3].success
  /\ ~resp[1].success

(***************************************************************************)
(* C26.  A batch that reaches forwarder.execute has settled exactly one    *)
(* payment, before the first execute; however many of its requests fail,   *)
(* no second settlement is sent and nothing is paid back: the receiving    *)
(* wallet keeps the amount of the authorization.                           *)
(***************************************************************************)
C26_BatchSettlesOnce ==
  \A r \in Reqs :
    (IsBatch(r) /\ Did(r, "execute")) =>
      /\ Sent("transferWithAuthorization") = {1}
      /\ Settlements = {1}
      /\ Count(r, "settleSent") = 1
      /\ Precedes(r, "receipt1", "execute")
      /\ balances["0xf40b"] = AuthOf(r).value
      /\ <<"0xp1", AuthOf(r).nonce>> \in authStates
      /\ Answered(r) => resp[r].paymentTxHash = 1

\* a batch answered with every request failed and the payment kept
C26_Witness ==
  /\ IsBatch(1)
  /\ Answered(1)
  /\ resp[1].status = 200
  /\ Len(resp[1].results) >= 2
  /\ \A k \in 1..Len(resp[1].results) : ~resp[1].results[k].success
  /\ balances["0xf40b"] = AuthOf(1).value
  /\ balances["0xf40b"] > 0

(***************************************************************************)
(* Vocabulary of the rate-limit claims.  With one request in the server at *)
(* a time, a counter that is not 0 has not been reset since the request at *)
(* hand arrived: hits.estimate is the number of that /estimate request in  *)
(* its window, and the requests counted by the general limiter that did    *)
(* not come through the estimate limiter are the relay requests.           *)
(***************************************************************************)
IsRelayRequest(r) == req[r].kind \in {"relay", "batch"}

RelaysInWindow == hits.general - (IF hits.estimate < 200 THEN hits.estimate ELSE 200)

RateLimited(r) ==
  /\ Answered(r)
  /\ resp[r].status = 429
  /\ resp[r].error = "RATE_LIMITED"

(***************************************************************************)
(* C27 as stated.  A client is served at most 30 relay requests            *)
(* (/meta/relay, /meta/batch) per window: the 31st and later ones are      *)
(* answered 429 RATE_LIMITED and nothing is verified or priced for them.   *)
(***************************************************************************)
C27_RelayLimitedTo30 ==
  \A r \in Reqs :
    (IsRelayRequest(r) /\ pc[r] # "idle" /\ RelaysInWindow > 30)
      => /\ RateLimited(r)
         /\ trace[r] = <<>>

(***************************************************************************)
(* C28 as stated.  A client is served GET /estimate up to 200 times per    *)
(* window: request number 1..200 of the window is not answered 429, every  *)
(* later one is.                                                           *)
(***************************************************************************)
C28_EstimateServedUpTo200 ==
  \A r \in Reqs :
    (req[r].kind = "estimate" /\ pc[r] # "idle" /\ hits.estimate >= 1)
      => /\ hits.estimate <= 200 => ~RateLimited(r)
         /\ hits.estimate > 200 => RateLimited(r)

(***************************************************************************)
(* C29 as stated.  A tick of checkAndRebalance that fires while an earlier *)
(* tick has not finished is skipped: it reads no balance, approves nothing *)
(* and swaps nothing.                                                      *)
(***************************************************************************)
C29_OverlappingTickSkipped ==
  \A t \in Reqs :
    Did(t, "overlapping") =>
      /\ ~Did(t, "balanceRead")
      /\ ~Did(t, "balanceReadFailed")
      /\ ~Did(t, "approved")
      /\ ~Did(t, "swapSent")

\* both ticks have swapped, the later one on balances read before the swap
\* of the earlier one
BothTicksSwapped ==
  /\ Did(1, "swapMined")
  /\ Did(2, "swapMined")
  /\ Did(2, "overlapping")

(***************************************************************************)
(* C30 as stated.  A payment whose value is the maxAmountRequired of a 402 *)
(* answer, presented with the same request and tier before the quote's     *)
(* validUntil, is not turned down as insufficient, whatever the node gas   *)
(* price and the spot price have become.                                   *)
(***************************************************************************)
C30_QuoteHonoredWhileValid ==
  (/\ Quoted(1)
   /\ HasEnvelope(2)
   /\ req[2].items = req[1].items
   /\ req[2].priority = req[1].priority
   /\ AuthOf(2).value = resp[1].maxAmountRequired
   /\ now < resp[1].validUntil)
    => ~RejectedWith(2, "Insufficient amount")


(***************************************************************************)
(* Vocabulary of the termination claim.                                    *)
(***************************************************************************)
Received(r) == pc[r] # "idle"

AwaitingReceipt(r) == pc[r] \in {"settleWait", "execWait"}

(***************************************************************************)
(* C31 as stated.  Every /meta/relay and /meta/batch request that was      *)
(* received is eventually answered: it does not wait forever for the       *)
(* receipt of a settlement or execution transaction.                       *)
(***************************************************************************)
C31_EveryRequestAnswered ==
  \A r \in Reqs : Received(r) ~> Answered(r)


(***************************************************************************)
(* Vocabulary of the round-robin claim.                                    *)
(***************************************************************************)
Returned == trace[1]

TimesReturned(address) ==
  Cardinality({p \in 1..Len(Returned) : Returned[p] = address})

(***************************************************************************)
(* C32.  On a pool of N wallets the calls of getRelayerRoundRobin return   *)
(* the wallets in index order, wrapping around: the p-th call returns      *)
(* wallet (p - 1) mod N; after k x N calls every wallet was returned       *)
(* exactly k times; and currentIndex stays within 0..N-1.                  *)
(***************************************************************************)
C32_RoundRobin ==
  LET N == Len(relayers)
  IN  /\ currentIndex \in 0..(N - 1)
      /\ \A p \in 1..Len(Returned) :
            Returned[p] = relayers[((p - 1) % N) + 1].address
      /\ \A k \in 1..MaxCalls :
            Len(Returned) = k * N
            => \A i \in 1..N : TimesReturned(relayers[i].address) = k

\* a pool of three wallets has been gone round twice, with jobs under way
C32_Witness ==
  /\ Len(relayers) = 3
  /\ Len(Returned) = 6
  /\ currentIndex = 0
  /\ \E i \in 1..3 : relayers[i].pendingTxCount > 0


(***************************************************************************)
(* Vocabulary of the rounding claim.  The price of a normal-tier quote is  *)
(* gasK x gasPriceH x spotMilli x (200 + 2 x MARKUP_PERCENTAGE) / 2000     *)
(* base units; with the product of the first three written 2000 q + rest,  *)
(* that is Whole(r) base units and Fraction2000(r) / 2000 of one.          *)
(***************************************************************************)
BaseCost(r) == req[r].items[1].request.gasK * getGasPrice(gasPrice) * croUsdPrice

MarkupOf == 200 + 2 * env.MARKUP_PERCENTAGE

Whole(r) == (BaseCost(r) \div 2000) * MarkupOf + ((BaseCost(r) % 2000) * MarkupOf) \div 2000

Fraction2000(r) == ((BaseCost(r) % 2000) * MarkupOf) % 2000

\* a quote of the normal tier on which neither the floor nor the cap acted
Unclamped(r) ==
  /\ Quoted(r)
  /\ req[r].priority = "normal"
  /\ resp[r].maxAmountRequired > TierFloor("normal")
  /\ resp[r].maxAmountRequired < MAX_PRICE_MICRO

\* the two worked examples: 100000 gas at 5000 gwei, spot 0.15, 20% markup,
\* and 500000 gas at 50000 gwei, spot 0.20
Examples(r) ==
  /\ (/\ req[r].items[1].request.gasK = 100 /\ getGasPrice(gasPrice) = 50
      /\ croUsdPrice = 150 /\ env.MARKUP_PERCENTAGE = 20)
       => resp[r].maxAmountRequired = 90000
  /\ (/\ req[r].items[1].request.gasK = 500 /\ getGasPrice(gasPrice) = 500
      /\ croUsdPrice = 200 /\ env.MARKUP_PERCENTAGE = 20)
       => resp[r].maxAmountRequired = 6000000

(***************************************************************************)
(* C33 as stated.  At the normal tier with neither floor nor cap active,   *)
(* finalPriceRaw is gasEstimate x gasPrice / 10^18 x spot x                *)
(* (1 + MARKUP_PERCENTAGE/100) in base units with the fraction beyond the  *)
(* sixth decimal truncated; the two worked examples give 90000 and         *)
(* 6000000.                                                                *)
(***************************************************************************)
C33_PriceTruncated ==
  \A r \in Reqs :
    Unclamped(r) => /\ resp[r].maxAmountRequired = Whole(r)
                    /\ Examples(r)

(***************************************************************************)
(* C33.  At the normal tier with neither floor nor cap active,             *)
(* finalPriceRaw is that product rounded to the nearest base unit (a       *)
(* fraction above a half rounds up, one below a half down); the two worked *)
(* examples give 90000 and 6000000.                                        *)
(***************************************************************************)
C33_PriceRoundedToNearest ==
  \A r \in Reqs :
    Unclamped(r) =>
      /\ Fraction2000(r) < 1000 => resp[r].maxAmountRequired = Whole(r)
      /\ Fraction2000(r) > 1000 => resp[r].maxAmountRequired = Whole(r) + 1
      /\ Examples(r)

\* 21000 gas at 5100 gwei, spot 0.151, 20% markup: 19406.52 base units are
\* quoted as 19407; 100000 gas at the same prices: 92412 base units exactly
C33_Witness ==
  /\ Unclamped(1)
  /\ Fraction2000(1) = 1040
  /\ resp[1].maxAmountRequired = 19407
  /\ Unclamped(2)
  /\ Fraction2000(2) = 0
  /\ resp[2].maxAmountRequired = 92412


(***************************************************************************)
(* Vocabulary of the validation claim: the ForwardRequest validation of    *)
(* forwarder.service.test, at time t.                                      *)
(***************************************************************************)
ValidRequest(request, t) ==
  /\ request.from \in Addresses
  /\ request.to \in Addresses
  /\ request.value # NotANumber
  /\ request.gasK # NotANumber
  /\ request.nonce # NotANumber
  /\ request.deadline # NotANumber
  /\ request.data \in HexData
  /\ request.deadline > t

(***************************************************************************)
(* C34 as stated.  A /meta/relay request whose ForwardRequest fails the    *)
(* validation (an address that is not 0x and 40 hex digits, a numeric      *)
(* field that is no integer, data that is not 0x-prefixed hex, or a        *)
(* deadline <= now) when the server checks it is answered 400 by that      *)
(* check: it goes on to neither pricing, settlement nor execution.         *)
(***************************************************************************)
C34_InvalidRequestIs400 ==
  [][\A r \in Reqs :
       (/\ req'[r].kind = "relay"
        /\ pc[r] \in {"idle", "verify"}
        /\ pc'[r] # pc[r]
        /\ ~ValidRequest(req'[r].items[1].request, now))
       => \/ pc'[r] = "verify"
          \/ pc'[r] = "done" /\ resp'[r].status = 400]_vars


(***************************************************************************)
(* Vocabulary of the claim on a payment presented twice.                   *)
(***************************************************************************)
SamePayment == HasEnvelope(1) /\ HasEnvelope(2) /\ AuthOf(1) = AuthOf(2)

PaymentRefused(r) ==
  /\ Answered(r)
  /\ resp[r].status = 402
  /\ resp[r].error \in {"PAYMENT_INVALID", "PAYMENT_FAILED"}

ConsecutiveBatch(r) ==
  /\ IsBatch(r)
  /\ Len(req[r].items) = 2
  /\ \A k \in 1..2 :
       /\ req[r].items[k].request.from = "0xa1"
       /\ req[r].items[k].signature.signedBy = "0xa1"
       /\ req[r].items[k].request.nonce = k - 1
       /\ req[r].items[k].request.deadline > MaxTime

(***************************************************************************)
(* C36 as stated.  A batch of two correctly signed requests of one agent   *)
(* with the consecutive nonces n and n+1, n being the agent's current      *)
(* nonce, passes the up-front verification (it is not answered             *)
(* INVALID_SIGNATURE unless the node fails), and once its payment settled  *)
(* both requests are executed in order.                                    *)
(***************************************************************************)
C36_ConsecutiveNoncesPass ==
  \A r \in Reqs :
    (ConsecutiveBatch(r) /\ Answered(r) /\ ~NodeFailed(r))
    => /\ resp[r].error # "INVALID_SIGNATURE"
       /\ Did(r, "receipt1")
            => /\ resp[r].status = 200
               /\ Len(resp[r].results) = 2
               /\ \A k \in 1..2 : resp[r].results[k].success


(***************************************************************************)
(* C37 as stated.  The execute transaction of a relay priced at tier t is  *)
(* submitted with the node gas price multiplied by t's gasPriceMultiplier, *)
(* the figure the quote reports as gasPriceGwei.                           *)
(***************************************************************************)
C37_SubmittedAtTierGasPrice ==
  \A r \in Reqs :
    (req[r].kind = "relay" /\ pc[r] = "execWait" /\ gasPrice # 0)
    => chainTxs[loc[r].pendingTx].gasPrice
         = calculatePrice(req[r].items[1].request.gasK, req[r].priority,
                          getGasPrice(gasPrice), croUsdPrice).gasPriceH


(***************************************************************************)
(* C38 as stated.  Under any interleaving of concurrent getNextNonce calls *)
(* with confirmNonce and releaseNonce, without resync, no two getNextNonce *)
(* calls return the same nonce, also when the first calls arrive before    *)
(* the nonce was initialised from the chain.                               *)
(***************************************************************************)
C38_NoncesDistinct ==
  \A c1, c2 \in Reqs :
    \A k1 \in 1..Len(trace[c1]) : \A k2 \in 1..Len(trace[c2]) :
      ((c1 # c2 \/ k1 # k2) /\ trace[c1][k1] # NoNonce)
      => trace[c1][k1] # trace[c2][k2]


(***************************************************************************)
(* Vocabulary of the claim on the swap in flight.                          *)
(***************************************************************************)
\* tick t is inside the try block of executeSwap
SwapInFlight(t) ==
  pc[t] \in {"allowance", "approve", "getAmountsOut", "swap", "swapWait", "newBalances"}

\* executeSwap of tick t has run to its end
SwapFinished(t) == Did(t, "executeSwap") /\ ~SwapInFlight(t)

(***************************************************************************)
(* C39 as stated.  At most one swap (approval plus swapExactTokensForETH)  *)
(* is in flight at any time, and isRebalancing is true exactly while a     *)
(* swap is in flight: once the swap has finished, by success, revert or    *)
(* exception, the flag is false again and a later tick can rebalance.      *)
(***************************************************************************)
C39_OneSwapInFlight ==
  /\ \A t1, t2 \in Reqs : (SwapInFlight(t1) /\ SwapInFlight(t2)) => t1 = t2
  /\ isRebalancing <=> (\E t \in Reqs : SwapInFlight(t))

\* the swap of one tick failed and the flag was reset; the swap of the other
\* tick was sent after that and waits for its receipt, the flag being set
C39_Witness ==
  \E t1, t2 \in Reqs :
    /\ t1 # t2
    /\ SwapFinished(t1)
    /\ Did(t1, "swapFailed")
    /\ pc[t2] = "swapWait"
    /\ isRebalancing


(***************************************************************************)
(* Vocabulary of the claim on the faucet.                                  *)
(***************************************************************************)
\* transaction h is a mint to `address` that went through, less than a
\* cooldown before the time t (in seconds)
MintedWithinCooldown(txs, h, address, t) ==
  /\ txs[h].kind = "mint"
  /\ txs[h].status = 1
  /\ toLowerCase(txs[h].to) = toLowerCase(address)
  /\ (t - txs[h].minedAt) * 1000 < COOLDOWN_MS

(***************************************************************************)
(* C40 as stated.  For each address the faucet performs at most one mint   *)
(* per 60-second cooldown window, also when several requests for the same  *)
(* address are in flight at once: no mint goes through less than 60        *)
(* seconds after another mint to the same address.  A request that arrives *)
(* within the cooldown of a completed mint is answered 429 and mints       *)
(* nothing.                                                                *)
(***************************************************************************)
C40_OneMintPerCooldown ==
  [][/\ \A h \in 1..Len(chainTxs) :
          (chainTxs[h].kind = "mint" /\ chainTxs[h].status = 0 /\ chainTxs'[h].status = 1)
          => ~\E h2 \in 1..Len(chainTxs) :
                MintedWithinCooldown(chainTxs, h2, chainTxs[h].to, now)
     /\ \A r \in Reqs :
          (/\ pc[r] = "idle"
           /\ pc'[r] # "idle"
           /\ isAddress(req'[r].address)
           /\ \E h \in 1..Len(chainTxs) :
                 MintedWithinCooldown(chainTxs, h, req'[r].address, now))
          => /\ pc'[r] = "done"
             /\ resp'[r].status = 429
             /\ chainTxs' = chainTxs]_vars

====
